---- MODULE Spec2Model ----
(***************************************************************************)
(* Job/task orchestration layer of ACJ_YTD: the Job Manager service, the   *)
(* Redis-backed message bus and the Download Worker service.               *)
(*                                                                         *)
(* Every handler of the services is one action (the handlers are asyncio   *)
(* coroutines; the worker's _process_job is split at its awaits on the     *)
(* bus).  Two specifications are given:                                    *)
(*   Spec   the Job Manager with the bus; worker processes appear only as  *)
(*          publishers of job_started/job_progress/job_completed/job_failed*)
(*   SpecW  the Download Worker processes with the bus; the Job Manager    *)
(*          appears only as the publisher of job_created.                  *)
(* The durable backlog lists are only ever appended to by the services; to *)
(* keep them bounded the specifications include calls of                   *)
(* MessageQueue.get_pending_messages, which drains them.                   *)
(***************************************************************************)
EXTENDS Integers, Sequences, FiniteSets, TLC

(* ---------------------------------------------------------------------- *)
(* Bounds and input domains                                                *)
(* ---------------------------------------------------------------------- *)
MaxBacklog == 1                \* messages held by the durable backlog lists together
MaxInbox == 1                  \* messages buffered by the pub/sub connections of a service
MaxRetryCount == 4             \* job_failed is no longer published for a job beyond this retry_count

MaxProcs == 1                  \* _process_job coroutines one worker process starts
MaxControls == 1               \* job_pause, job_resume and job_cancelled messages published for a job, each
MaxCallbacks == 3              \* callbacks registered for one message type
MaxMessages == 2               \* messages one consumer loop receives

Seconds == {0}                 \* values of datetime.now(), to the second
UrlLists == {<<>>, <<"A">>}
WorkerUrlLists == {<<"A", "B">>}   \* the jobs submitted in SpecW
MaxRetriesConfigs == {0, 10}   \* values of the max_retries setting (default 10)
JitterTenths == 5..15          \* random.uniform(0.5, 1.5), in tenths
ProgressReports == {0, 1}      \* progress events the fetch engine reports per download
Limits == {1, 10}              \* limit argument of get_pending_messages (default 10)
Configs == {"cfg"}
Priorities == {1}
Workers == {"w1", "w2"}

(* ---------------------------------------------------------------------- *)
(* shared/models.py                                                        *)
(* ---------------------------------------------------------------------- *)
PENDING == "pending"
QUEUED == "queued"
RUNNING == "running"
PAUSED == "paused"
COMPLETED == "completed"
FAILED == "failed"
CANCELLED == "cancelled"
JobStatus == {PENDING, QUEUED, RUNNING, PAUSED, COMPLETED, FAILED, CANCELLED}

JOB_CREATED == "job_created"
JOB_STARTED == "job_started"
JOB_PROGRESS == "job_progress"
JOB_COMPLETED == "job_completed"
JOB_FAILED == "job_failed"
JOB_CANCELLED == "job_cancelled"
JOB_RESUME == "job_resume"
JOB_PAUSE == "job_pause"
DOWNLOAD_STARTED == "download_started"
DOWNLOAD_PROGRESS == "download_progress"
DOWNLOAD_COMPLETED == "download_completed"
DOWNLOAD_FAILED == "download_failed"
DOWNLOAD_RESUME == "download_resume"
MessageType == {JOB_CREATED, JOB_STARTED, JOB_PROGRESS, JOB_COMPLETED, JOB_FAILED,
                JOB_CANCELLED, JOB_RESUME, JOB_PAUSE,
                DOWNLOAD_STARTED, DOWNLOAD_PROGRESS, DOWNLOAD_COMPLETED,
                DOWNLOAD_FAILED, DOWNLOAD_RESUME}

NoTime == -1                   \* Optional[datetime] = None
NoError == [completed |-> -1, total |-> -1]    \* Optional[str] = None
DefaultMaxRetries == 3         \* DownloadJob.max_retries default

\* DownloadJob(id, urls, config, priority, status) with the dataclass defaults
DownloadJob(id, urls, config, priority, status, now) ==
    [id |-> id, urls |-> urls, config |-> config, status |-> status,
     priority |-> priority, created_at |-> now, started_at |-> NoTime,
     completed_at |-> NoTime, progress |-> 0, error |-> NoError,
     retry_count |-> 0, max_retries |-> DefaultMaxRetries]

\* create_job_message / create_download_message: the payload carries the id
ServiceMessage(id, type, service, payload, now) ==
    [message_type |-> type, service |-> service, timestamp |-> now,
     id |-> id, payload |-> payload]
create_job_message(job_id, type, payload, now) ==
    ServiceMessage(job_id, type, "job-manager", payload, now)
create_download_message(task_id, type, payload, now) ==
    ServiceMessage(task_id, type, "download-worker", payload, now)

NoPayload == [none |-> TRUE]

(* ---------------------------------------------------------------------- *)
(* State                                                                   *)
(* ---------------------------------------------------------------------- *)
VARIABLES
    redis_jobs,     \* Redis keys "job:{id}": job id -> stored record
    job_queue,      \* Redis sorted set "job_queue": job id -> score
    active_jobs,    \* JobManager.active_jobs: job id -> in-memory DownloadJob
    queue,          \* Redis lists "queue:{type}": durable backlog, head = newest
    pubsub,         \* Redis pub/sub: subscriber -> type -> messages not yet received
    subscribers,    \* services whose consumer loops are subscribed
    ret,            \* the success flag the last step returned, if it was a REST call
    runs,           \* the jobs for which a worker has started a run of _process_job
    procs,          \* worker -> its _process_job coroutines, in creation order
    active_downloads, \* worker -> DownloadWorker.active_downloads: task id -> task object
    resume_data,    \* worker -> DownloadWorker.resume_data: the task ids with an entry
    resume_files,   \* worker -> the task ids with a .resume_{task_id}.json file
    progress_tasks, \* worker -> publish tasks created by progress hooks, not yet run
    resume_tasks,   \* worker -> _resume_download tasks created by _handle_job_resume
    shutdown,       \* worker -> DownloadWorker._shutdown
    dl,             \* a call of YouTubeDownloader.download_single_video and the stop event
    bus,            \* a MessageQueue object: its callbacks of one type and its consumer loop
    partial_files,  \* the task ids whose recorded partial file is on disk with the recorded size or more
    storage,        \* storage-service: the files under storage_path and the events it published
    db,             \* DatabaseManager: the rows of download_jobs and download_results, the last call's outcome
    api             \* standalone REST API: active_jobs, the DownloadJob objects, the background tasks

workerVars == <<procs, active_downloads, resume_data, resume_files, progress_tasks,
                resume_tasks, shutdown>>
vars == <<redis_jobs, job_queue, active_jobs, queue, pubsub, subscribers, ret, runs,
          procs, active_downloads, resume_data, resume_files, progress_tasks,
          resume_tasks, shutdown, dl, bus, partial_files, storage, db, api>>

\* the storage directory, the SQLite database and the standalone API after construction
EmptyStorage == [files |-> [p \in {} |-> 0], sidecars |-> [p \in {} |-> 0], events |-> <<>>,
                 returned |-> -1]
EmptyDb == [download_jobs |-> {}, download_results |-> {}, rowid |-> 0,
            now |-> [month |-> 1, day |-> 1, hour |-> 0], outcome |-> "none", returned |-> -1]
EmptyApi == [active_jobs |-> {}, jobs |-> [i \in {} |-> 0], tasks |-> [i \in {} |-> 0],
             response |-> "none"]

JM == "job-manager"
Services == {JM} \cup Workers

\* MessageQueue.subscribe calls made in connect() of each service
SubscribedTypes(s) ==
    IF s = JM THEN {JOB_STARTED, JOB_COMPLETED, JOB_FAILED, JOB_PROGRESS}
    ELSE {JOB_CREATED, JOB_PAUSE, JOB_RESUME, JOB_CANCELLED}

(* ---------------------------------------------------------------------- *)
(* shared/messaging.py                                                     *)
(* ---------------------------------------------------------------------- *)
RECURSIVE SumLen(_, _)
SumLen(f, S) ==
    IF S = {} THEN 0
    ELSE LET x == CHOOSE x \in S : TRUE IN Len(f[x]) + SumLen(f, S \ {x})

\* messages in all the backlog lists / buffered for one service
BacklogSize == SumLen(queue, MessageType)
InboxSize(s) == SumLen(pubsub[s], MessageType)

\* number of messages of a type about an id in the backlog lists
CountMsgs(q, type, id) ==
    Cardinality({i \in 1..Len(q[type]) : q[type][i].id = id})

\* the services that receive a message of the type on the live channel
Receivers(type) == {s \in subscribers : type \in SubscribedTypes(s)}

\* room for one more message of the type in the backlog and in the buffers
\* (the guard that keeps the lists and the buffers bounded)
Room(type) ==
    /\ BacklogSize < MaxBacklog
    /\ \A s \in Receivers(type) : InboxSize(s) < MaxInbox

\* MessageQueue.publish: broadcast on the channel of the type (every
\* subscribed consumer loop receives it) and lpush on the backlog list
Broadcast(ps, m) ==
    [s \in Services |->
        IF s \in Receivers(m.message_type)
        THEN [ps[s] EXCEPT ![m.message_type] = Append(@, m)]
        ELSE ps[s]]
LPush(q, m) == [q EXCEPT ![m.message_type] = <<m>> \o @]

publish(m) ==
    /\ pubsub' = Broadcast(pubsub, m)
    /\ queue' = LPush(queue, m)

\* a REST call returned success, or was refused with status 400
Returned(ok) == IF ok THEN "true" ELSE "false"
NoCall == "none"

\* MessageQueue.get_pending_messages: rpop up to limit messages of the type
\* the try/except around the parsing of a popped entry: an entry that does
\* not parse is printed and not returned
Parsed(message_data) ==
    IF message_data.message_type \in MessageType THEN <<message_data>> ELSE <<>>
\* LPOP in place of RPOP: the entry at the head of the list
lpop(list) == [message_data |-> Head(list), rest |-> Tail(list)]
\* Redis RPOP: the entry at the tail of the list
rpop(list) == [message_data |-> list[Len(list)], rest |-> SubSeq(list, 1, Len(list) - 1)]
\* the loop `for _ in range(limit)` of get_pending_messages over the list of
\* the type: the messages returned and what is left of the list
RECURSIVE rpop_loop(_, _)
rpop_loop(list, limit) ==
    IF limit <= 0 \/ list = <<>> THEN [messages |-> <<>>, rest |-> list]
    ELSE LET popped == rpop(list)
             later == rpop_loop(popped.rest, limit - 1)
         IN [messages |-> Parsed(popped.message_data) \o later.messages, rest |-> later.rest]

get_pending_messages(type, limit) ==
    /\ queue[type] # <<>>
    /\ queue' = [queue EXCEPT ![type] = rpop_loop(@, limit).rest]
    /\ ret' = NoCall
    /\ UNCHANGED <<redis_jobs, job_queue, active_jobs, pubsub, subscribers, runs, workerVars, dl, bus, partial_files, storage, db, api>>

\* the consumer loop of a service takes the next message of a type
Received(s, type) == pubsub[s][type] # <<>>
NextMessage(s, type) == Head(pubsub[s][type])
Consume(s, type) == pubsub' = [pubsub EXCEPT ![s][type] = Tail(@)]

(* ---------------------------------------------------------------------- *)
(* shared/messaging.py: one MessageQueue object and its consumer loop for  *)
(* one message type                                                        *)
(* ---------------------------------------------------------------------- *)
\* the callbacks a service may register
Callbacks == {"h1", "h2"}

\* MessageQueue.__init__: no subscribers, not running
NoBus ==
    [callbacks |-> <<>>, _running |-> FALSE, pc |-> "idle", inbox |-> 0, received |-> 0,
     next |-> 0, calls |-> <<>>, raised |-> <<>>]

busOther == <<redis_jobs, job_queue, active_jobs, queue, pubsub, subscribers, ret, runs,
              workerVars, dl, partial_files, storage, db, api>>

\* MessageQueue.subscribe: appends the callback to the list of the type
subscribe(callback) ==
    /\ Len(bus.callbacks) < MaxCallbacks
    /\ bus' = [bus EXCEPT !.callbacks = Append(@, callback)]
    /\ UNCHANGED busOther

\* MessageQueue.start_consuming: one consumer task per type subscribed so far
start_consuming ==
    /\ bus.pc = "idle"
    /\ bus.callbacks # <<>>
    /\ bus' = [bus EXCEPT !._running = TRUE, !.pc = "wait"]
    /\ UNCHANGED busOther

\* MessageQueue.stop_consuming
stop_consuming ==
    /\ bus._running
    /\ bus' = [bus EXCEPT !._running = FALSE]
    /\ UNCHANGED busOther

\* a message of the type is published while the consumer is subscribed
MessageArrives ==
    /\ bus.pc \in {"wait", "dispatch"}
    /\ bus.received + bus.inbox < MaxMessages
    /\ bus' = [bus EXCEPT !.inbox = @ + 1]
    /\ UNCHANGED busOther

\* _consume_messages: pubsub.get_message returns a message; the for loop over
\* self.subscribers[message_type] starts
GetMessage ==
    /\ bus.pc = "wait"
    /\ bus._running
    /\ bus.inbox > 0
    /\ bus' = [bus EXCEPT !.pc = "dispatch", !.inbox = @ - 1, !.received = @ + 1,
                          !.next = 1, !.calls = <<>>, !.raised = <<>>]
    /\ UNCHANGED busOther

\* _consume_messages: the loop test `while self._running` fails
ConsumerExits ==
    /\ bus.pc = "wait"
    /\ ~bus._running
    /\ bus' = [bus EXCEPT !.pc = "stopped"]
    /\ UNCHANGED busOther

\* the for loop after a callback that raised, without the try/except around
\* the call: the exception leaves the loop
AfterCallback_leaves(raises, next, n) == IF raises THEN n + 1 ELSE next + 1
\* _consume_messages: the for loop after a callback returned or raised; the
\* exception is caught around the single call and the loop goes on
AfterCallback(raises, next, n) == next + 1

\* _consume_messages: `await callback(service_message)` for the next callback
\* of the list, which returns or raises
CallbackRuns(raises) ==
    /\ bus.pc = "dispatch"
    /\ bus.next <= Len(bus.callbacks)
    /\ bus' = [bus EXCEPT !.calls = Append(@, bus.callbacks[bus.next]),
                          !.raised = Append(@, raises),
                          !.next = AfterCallback(raises, bus.next, Len(bus.callbacks))]
    /\ UNCHANGED busOther

\* _consume_messages: the for loop is exhausted, back to get_message
MessageDone ==
    /\ bus.pc = "dispatch"
    /\ bus.next > Len(bus.callbacks)
    /\ bus' = [bus EXCEPT !.pc = "wait"]
    /\ UNCHANGED busOther

(* ---------------------------------------------------------------------- *)
(* services/job-manager/app.py                                             *)
(* ---------------------------------------------------------------------- *)
HashMod == 10000

\* hash(str(urls)): Python's string hash is fixed within one process and
\* depends on the text only; modelled as a polynomial hash of the characters.
UrlCode(u) == IF u = "A" THEN 65 ELSE 66
RECURSIVE HashStr(_)
HashStr(urls) ==
    IF urls = <<>> THEN 7
    ELSE (31 * HashStr(SubSeq(urls, 1, Len(urls) - 1)) + UrlCode(urls[Len(urls)])) % 1000003

\* f"job_{now:%Y%m%d_%H%M%S}_{hash(str(urls)) % 10000}"
JobId(now, urls) == [ts |-> now, h |-> HashStr(urls) % HashMod]

\* the ids a client can name; the id of the empty list is never created
JobIds == {JobId(t, u) : t \in Seconds, u \in UrlLists \cup WorkerUrlLists}

EmptyMap == [x \in {} |-> 0]
Put(f, k, v) == [x \in DOMAIN f \cup {k} |-> IF x = k THEN v ELSE f[x]]
Del(f, k) == [x \in DOMAIN f \ {k} |-> f[x]]

Terminal == {COMPLETED, FAILED, CANCELLED}

\* JobManager.get_job: the in-memory object if the job is active, else a
\* fresh object loaded from Redis, else None
HasJob(job_id) == job_id \in DOMAIN active_jobs \/ job_id \in DOMAIN redis_jobs
get_job(job_id) ==
    IF job_id \in DOMAIN active_jobs THEN active_jobs[job_id] ELSE redis_jobs[job_id]

\* JobManager._store_job: SETEX job:{id}
_store_job(jobs, job) == Put(jobs, job.id, job)
\* JobManager._queue_job: ZADD job_queue {id: priority}
_queue_job_skipped(zset, job) == zset
_queue_job(zset, job) == Put(zset, job.id, job.priority)
\* JobManager._remove_from_queue: ZREM job_queue id
_remove_from_queue_skipped(zset, job_id) == zset
_remove_from_queue(zset, job_id) == Del(zset, job_id)

\* a mutation of the object returned by get_job is a mutation of the entry of
\* active_jobs when the job is active (same Python object)
Aliased(job) ==
    IF job.id \in DOMAIN active_jobs THEN [active_jobs EXCEPT ![job.id] = job]
    ELSE active_jobs

\* POST /jobs: "if not urls: raise HTTPException(400)"
UrlsMissing_unchecked(urls) == FALSE
UrlsMissing(urls) == urls = <<>>

\* POST /jobs, calling JobManager.create_job
create_job(urls, config, priority, now) ==
    IF UrlsMissing(urls)
    THEN /\ ret' = Returned(FALSE)
         /\ UNCHANGED <<redis_jobs, job_queue, active_jobs, queue, pubsub, subscribers, runs, workerVars, dl, bus, partial_files, storage, db, api>>
    ELSE LET job_id == JobId(now, urls)
             job == DownloadJob(job_id, urls, config, priority, PENDING, now)
         IN /\ Room(JOB_CREATED)
            /\ redis_jobs' = _store_job(redis_jobs, job)
            /\ job_queue' = _queue_job(job_queue, job)
            /\ publish(create_job_message(job_id, JOB_CREATED,
                          [urls |-> urls, config |-> config, priority |-> priority], now))
            /\ ret' = Returned(TRUE)
            /\ UNCHANGED <<active_jobs, subscribers, runs, workerVars, dl, bus, partial_files, storage, db, api>>

\* the statuses from which cancel_job refuses
CancelRefused == {COMPLETED, FAILED, CANCELLED}

\* DELETE /jobs/{job_id}, calling JobManager.cancel_job
cancel_job(job_id, now) ==
    IF ~HasJob(job_id) \/ get_job(job_id).status \in CancelRefused
    THEN /\ ret' = Returned(FALSE)
         /\ UNCHANGED <<redis_jobs, job_queue, active_jobs, queue, pubsub, subscribers, runs, workerVars, dl, bus, partial_files, storage, db, api>>
    ELSE LET job == [get_job(job_id) EXCEPT !.status = CANCELLED, !.completed_at = now]
         IN /\ Room(JOB_CANCELLED)
            /\ active_jobs' = Aliased(job)
            /\ redis_jobs' = _store_job(redis_jobs, job)
            /\ job_queue' = _remove_from_queue(job_queue, job_id)
            /\ publish(create_job_message(job_id, JOB_CANCELLED, NoPayload, now))
            /\ ret' = Returned(TRUE)
            /\ UNCHANGED <<subscribers, runs, workerVars, dl, bus, partial_files, storage, db, api>>

\* the statuses from which pause_job / resume_job proceed
CanPause_queued_too(status) == status \in {RUNNING, QUEUED}
CanPause(status) == status = RUNNING
CanResume_not_terminal(status) == status \in {PAUSED, PENDING, QUEUED}
CanResume(status) == status = PAUSED

\* POST /jobs/{job_id}/pause, calling JobManager.pause_job
pause_job(job_id, now) ==
    IF ~HasJob(job_id) \/ ~CanPause(get_job(job_id).status)
    THEN /\ ret' = Returned(FALSE)
         /\ UNCHANGED <<redis_jobs, job_queue, active_jobs, queue, pubsub, subscribers, runs, workerVars, dl, bus, partial_files, storage, db, api>>
    ELSE LET job == [get_job(job_id) EXCEPT !.status = PAUSED]
         IN /\ Room(JOB_PAUSE)
            /\ active_jobs' = Aliased(job)
            /\ redis_jobs' = _store_job(redis_jobs, job)
            /\ publish(create_job_message(job_id, JOB_PAUSE, NoPayload, now))
            /\ ret' = Returned(TRUE)
            /\ UNCHANGED <<job_queue, subscribers, runs, workerVars, dl, bus, partial_files, storage, db, api>>

\* POST /jobs/{job_id}/resume, calling JobManager.resume_job
resume_job(job_id, now) ==
    IF ~HasJob(job_id) \/ ~CanResume(get_job(job_id).status)
    THEN /\ ret' = Returned(FALSE)
         /\ UNCHANGED <<redis_jobs, job_queue, active_jobs, queue, pubsub, subscribers, runs, workerVars, dl, bus, partial_files, storage, db, api>>
    ELSE LET job == [get_job(job_id) EXCEPT !.status = QUEUED]
         IN /\ Room(JOB_RESUME)
            /\ active_jobs' = Aliased(job)
            /\ redis_jobs' = _store_job(redis_jobs, job)
            /\ job_queue' = _queue_job(job_queue, job)
            /\ publish(create_job_message(job_id, JOB_RESUME, NoPayload, now))
            /\ ret' = Returned(TRUE)
            /\ UNCHANGED <<subscribers, runs, workerVars, dl, bus, partial_files, storage, db, api>>

\* JobManager._handle_job_started
_handle_job_started(now) ==
    /\ Received(JM, JOB_STARTED)
    /\ LET job_id == NextMessage(JM, JOB_STARTED).id
       IN IF HasJob(job_id)
          THEN LET job == [get_job(job_id) EXCEPT !.status = RUNNING, !.started_at = now]
               IN /\ redis_jobs' = _store_job(redis_jobs, job)
                  /\ active_jobs' = Put(active_jobs, job_id, job)
          ELSE UNCHANGED <<redis_jobs, active_jobs>>
    /\ Consume(JM, JOB_STARTED)
    /\ ret' = NoCall
    /\ UNCHANGED <<job_queue, queue, subscribers, runs, workerVars, dl, bus, partial_files, storage, db, api>>

\* JobManager._handle_job_completed
_handle_job_completed(now) ==
    /\ Received(JM, JOB_COMPLETED)
    /\ LET job_id == NextMessage(JM, JOB_COMPLETED).id
       IN IF job_id \in DOMAIN active_jobs
          THEN LET job == [active_jobs[job_id] EXCEPT !.status = COMPLETED,
                              !.completed_at = now, !.progress = 100]
               IN /\ redis_jobs' = _store_job(redis_jobs, job)
                  /\ active_jobs' = Del(active_jobs, job_id)
          ELSE UNCHANGED <<redis_jobs, active_jobs>>
    /\ Consume(JM, JOB_COMPLETED)
    /\ ret' = NoCall
    /\ UNCHANGED <<job_queue, queue, subscribers, runs, workerVars, dl, bus, partial_files, storage, db, api>>

\* the retry decision of _handle_job_failed, on the incremented counter
RetryAllowed_unless_equal(job) == job.retry_count # job.max_retries
RetryAllowed(job) == job.retry_count < job.max_retries

\* JobManager._handle_job_failed
_handle_job_failed(now) ==
    /\ Received(JM, JOB_FAILED)
    /\ LET message == NextMessage(JM, JOB_FAILED)
           job_id == message.id
       IN IF HasJob(job_id)
          THEN LET job1 == [get_job(job_id) EXCEPT !.error = message.payload.error,
                                                  !.retry_count = @ + 1]
                   job == IF RetryAllowed(job1)
                          THEN [job1 EXCEPT !.status = QUEUED]
                          ELSE [job1 EXCEPT !.status = FAILED, !.completed_at = now]
               IN /\ get_job(job_id).retry_count < MaxRetryCount
                  /\ job_queue' = IF RetryAllowed(job1)
                                  THEN _queue_job(job_queue, job) ELSE job_queue
                  /\ redis_jobs' = _store_job(redis_jobs, job)
                  /\ active_jobs' = Del(active_jobs, job_id)
          ELSE UNCHANGED <<redis_jobs, active_jobs, job_queue>>
    /\ Consume(JM, JOB_FAILED)
    /\ ret' = NoCall
    /\ UNCHANGED <<queue, subscribers, runs, workerVars, dl, bus, partial_files, storage, db, api>>

\* JobManager._handle_job_progress
_handle_job_progress ==
    /\ Received(JM, JOB_PROGRESS)
    /\ LET message == NextMessage(JM, JOB_PROGRESS)
           job_id == message.id
       IN IF job_id \in DOMAIN active_jobs
          THEN LET job == [active_jobs[job_id] EXCEPT !.progress = message.payload.progress]
               IN /\ active_jobs' = [active_jobs EXCEPT ![job_id] = job]
                  /\ redis_jobs' = _store_job(redis_jobs, job)
          ELSE UNCHANGED <<redis_jobs, active_jobs>>
    /\ Consume(JM, JOB_PROGRESS)
    /\ ret' = NoCall
    /\ UNCHANGED <<job_queue, queue, subscribers, runs, workerVars, dl, bus, partial_files, storage, db, api>>

(* ---------------------------------------------------------------------- *)
(* The worker processes as the Job Manager sees them: each run of          *)
(* DownloadWorker._process_job publishes job_started, then job_progress    *)
(* after each completed task, then one of job_completed and job_failed.    *)
(* Every subscribed worker process starts a run for each job_created it    *)
(* receives, so a job can have any number of runs; the runs are not told   *)
(* apart: once one has started, each of these messages can be published.   *)
(* ---------------------------------------------------------------------- *)
\* (completed_tasks / total_tasks) * 100
ProgressOf(completed_tasks, total_tasks) == (completed_tasks * 100) \div total_tasks
\* f"Completed {completed_tasks}/{total_tasks} tasks"
ErrorOf(completed_tasks, total_tasks) == [completed |-> completed_tasks, total |-> total_tasks]

WorkerPublishes(message) ==
    /\ Room(message.message_type)
    /\ publish(message)
    /\ ret' = NoCall
    /\ UNCHANGED <<redis_jobs, job_queue, active_jobs, subscribers, workerVars, dl, bus, partial_files, storage, db, api>>

\* a worker has received the job_created of the job and starts a run
WorkerJobStarted(job_id, now) ==
    /\ job_id \in DOMAIN redis_jobs
    /\ runs' = runs \cup {job_id}
    /\ WorkerPublishes(create_job_message(job_id, JOB_STARTED, NoPayload, now))

\* a run that has started publishes its progress
WorkerJobProgress(job_id, now) ==
    /\ job_id \in runs
    /\ UNCHANGED runs
    /\ \E c \in 1..Len(redis_jobs[job_id].urls) :
          WorkerPublishes(create_job_message(job_id, JOB_PROGRESS,
              [progress |-> ProgressOf(c, Len(redis_jobs[job_id].urls))], now))

\* a run that has started ends with all its tasks completed
WorkerJobCompleted(job_id, now) ==
    /\ job_id \in runs
    /\ UNCHANGED runs
    /\ WorkerPublishes(create_job_message(job_id, JOB_COMPLETED, NoPayload, now))

\* a run that has started ends with fewer tasks completed
WorkerJobFailed(job_id, now) ==
    /\ job_id \in runs
    /\ UNCHANGED runs
    /\ \E c \in 0..(Len(redis_jobs[job_id].urls) - 1) :
          WorkerPublishes(create_job_message(job_id, JOB_FAILED,
              [error |-> ErrorOf(c, Len(redis_jobs[job_id].urls))], now))

(* ---------------------------------------------------------------------- *)
(* services/download-worker/app.py                                         *)
(* ---------------------------------------------------------------------- *)
\* f"{job_id}_task_{i}"
TaskId(job_id, i) == [job_id |-> job_id, index |-> i]

\* DownloadTask(id, job_id, url, status); file_path is None (FALSE) until the
\* fetch engine has written the file
DownloadTask(id, job_id, url, status) ==
    [id |-> id, job_id |-> job_id, url |-> url, status |-> status, file_path |-> FALSE]

\* the tasks _handle_job_created builds from the urls of the message
TasksOf(job_id, urls) ==
    [k \in 1..Len(urls) |-> DownloadTask(TaskId(job_id, k - 1), job_id, urls[k], QUEUED)]

\* DownloadWorker._handle_job_created: build the tasks and
\* asyncio.create_task(self._process_job(job_id, tasks, config))
JobCreatedHandled(w, max_procs) ==
    /\ Received(w, JOB_CREATED)
    /\ Len(procs[w]) < max_procs
    /\ LET message == NextMessage(w, JOB_CREATED)
           job_id == message.id
           urls == message.payload.urls
       IN IF urls # <<>>
          THEN procs' = [procs EXCEPT ![w] = Append(@,
                   [job_id |-> job_id, tasks |-> TasksOf(job_id, urls), i |-> 1,
                    pc |-> "start", completed_tasks |-> 0])]
          ELSE UNCHANGED procs
    /\ Consume(w, JOB_CREATED)
    /\ ret' = NoCall
    /\ UNCHANGED <<redis_jobs, job_queue, active_jobs, queue, subscribers, runs,
                   active_downloads, resume_data, resume_files, progress_tasks,
                   resume_tasks, shutdown, dl, bus, partial_files, storage, db, api>>

\* DownloadWorker._handle_job_created, for at most MaxProcs coroutines
_handle_job_created(w) == JobCreatedHandled(w, MaxProcs)

\* DownloadWorker._load_resume_data: the entry in memory, else the file
HasResumeData(w, task_id) == task_id \in resume_data[w] \/ task_id \in resume_files[w]

\* _process_job from the top of "for task in tasks" to its next await on the
\* bus, for the coroutine pr (number p of worker w) whose next task is pr.i:
\* the coroutine, active_downloads and the message it then publishes
LoopStep(w, p, pr, active) ==
    IF pr.i > Len(pr.tasks) \/ shutdown[w]
    THEN [proc |-> [pr EXCEPT !.pc = "done"],
          active |-> active,
          msg |-> IF pr.completed_tasks = Len(pr.tasks)
                  THEN create_job_message(pr.job_id, JOB_COMPLETED, NoPayload, 0)
                  ELSE create_job_message(pr.job_id, JOB_FAILED,
                           [error |-> ErrorOf(pr.completed_tasks, Len(pr.tasks))], 0)]
    ELSE LET task == pr.tasks[pr.i]
             resume == HasResumeData(w, task.id)
         IN [proc |-> [pr EXCEPT !.tasks[pr.i].status = RUNNING,
                                 !.pc = IF resume THEN "resume" ELSE "download"],
             active |-> Put(active, task.id, [proc |-> p, task |-> pr.i]),
             msg |-> create_download_message(task.id,
                         IF resume THEN DOWNLOAD_RESUME ELSE DOWNLOAD_STARTED, NoPayload, 0)]

\* the "finally" of the loop body, then the next iteration
NextTask(w, p, pr, active) ==
    LoopStep(w, p, [pr EXCEPT !.i = @ + 1], Del(active, pr.tasks[pr.i].id))

\* the task the coroutine is working on
Current(w, p) == procs[w][p].tasks[procs[w][p].i]

WorkerStep(w, p, proc, active, msg) ==
    /\ procs' = [procs EXCEPT ![w][p] = proc]
    /\ active_downloads' = [active_downloads EXCEPT ![w] = active]
    /\ publish(msg)
    /\ ret' = NoCall
    /\ UNCHANGED <<redis_jobs, job_queue, active_jobs, subscribers, runs, resume_tasks, shutdown, dl, bus, partial_files, storage, db, api>>

\* _process_job: publish job_started
ProcessJobStart(w, p) ==
    /\ procs[w][p].pc = "start"
    /\ WorkerStep(w, p, [procs[w][p] EXCEPT !.pc = "loop"], active_downloads[w],
                  create_job_message(procs[w][p].job_id, JOB_STARTED, NoPayload, 0))
    /\ UNCHANGED <<resume_data, resume_files, progress_tasks>>

\* _process_job after job_started is published: the first iteration
ProcessJobLoop(w, p) ==
    /\ procs[w][p].pc = "loop"
    /\ LET r == LoopStep(w, p, procs[w][p], active_downloads[w])
       IN WorkerStep(w, p, r.proc, r.active, r.msg)
    /\ UNCHANGED <<resume_data, resume_files, progress_tasks>>

\* the publish tasks the progress hook creates while the engine runs
ProgressHooks(task_id, n) ==
    [k \in 1..n |-> create_download_message(task_id, DOWNLOAD_PROGRESS, NoPayload, 0)]

\* DownloadWorker._save_resume_data: only for a task whose file exists
_save_resume_data(set, task) == IF task.file_path THEN set \cup {task.id} ELSE set
\* DownloadWorker._clear_resume_data
_clear_resume_data(set, task_id) == set \ {task_id}

\* _download_task after download_started is published: the fetch engine runs
\* to its end (a blocking call); on success download_completed is published,
\* on an exception _process_job publishes download_failed
DownloadTaskRuns(w, p, success, reports) ==
    /\ procs[w][p].pc = "download"
    /\ LET pr == procs[w][p]
           task == Current(w, p)
       IN /\ progress_tasks' = [progress_tasks EXCEPT ![w] = @ \o ProgressHooks(task.id, reports)]
          /\ IF success
             THEN /\ WorkerStep(w, p,
                        [pr EXCEPT !.tasks[pr.i].status = COMPLETED,
                                   !.tasks[pr.i].file_path = TRUE, !.pc = "downloaded"],
                        active_downloads[w],
                        create_download_message(task.id, DOWNLOAD_COMPLETED, NoPayload, 0))
                  /\ UNCHANGED <<resume_data, resume_files>>
             ELSE /\ WorkerStep(w, p,
                        [pr EXCEPT !.tasks[pr.i].status = FAILED, !.pc = "failed"],
                        active_downloads[w],
                        create_download_message(task.id, DOWNLOAD_FAILED, NoPayload, 0))
                  /\ resume_data' = [resume_data EXCEPT ![w] = _save_resume_data(@, task)]
                  /\ resume_files' = [resume_files EXCEPT ![w] = _save_resume_data(@, task)]

\* _resume_download after download_resume is published
ResumeDownloadRuns(w, p, success, reports) ==
    /\ procs[w][p].pc = "resume"
    /\ LET pr == procs[w][p]
           task == Current(w, p)
       IN /\ progress_tasks' = [progress_tasks EXCEPT ![w] = @ \o ProgressHooks(task.id, reports)]
          /\ IF success
             THEN /\ WorkerStep(w, p,
                        [pr EXCEPT !.tasks[pr.i].status = COMPLETED,
                                   !.tasks[pr.i].file_path = TRUE, !.pc = "downloaded"],
                        active_downloads[w],
                        create_download_message(task.id, DOWNLOAD_COMPLETED, NoPayload, 0))
                  /\ resume_data' = [resume_data EXCEPT ![w] = _clear_resume_data(@, task.id)]
                  /\ resume_files' = [resume_files EXCEPT ![w] = _clear_resume_data(@, task.id)]
             ELSE /\ WorkerStep(w, p,
                        [pr EXCEPT !.tasks[pr.i].status = FAILED, !.pc = "failed"],
                        active_downloads[w],
                        create_download_message(task.id, DOWNLOAD_FAILED, NoPayload, 0))
                  /\ UNCHANGED <<resume_data, resume_files>>

\* _process_job after download_completed is published: count the task and
\* publish job_progress if its status is COMPLETED, else go on with the loop
TaskReturned(w, p) ==
    /\ procs[w][p].pc = "downloaded"
    /\ LET pr == procs[w][p]
           r == NextTask(w, p, pr, active_downloads[w])
       IN IF Current(w, p).status = COMPLETED
          THEN WorkerStep(w, p,
                   [pr EXCEPT !.completed_tasks = @ + 1, !.pc = "counted"],
                   active_downloads[w],
                   create_job_message(pr.job_id, JOB_PROGRESS,
                       [progress |-> ProgressOf(pr.completed_tasks + 1, Len(pr.tasks))], 0))
          ELSE WorkerStep(w, p, r.proc, r.active, r.msg)
    /\ UNCHANGED <<resume_data, resume_files, progress_tasks>>

\* _process_job after job_progress or download_failed is published: the
\* "finally" and the next iteration, or the end of the job
TaskFinished(w, p) ==
    /\ procs[w][p].pc \in {"counted", "failed"}
    /\ LET r == NextTask(w, p, procs[w][p], active_downloads[w])
       IN WorkerStep(w, p, r.proc, r.active, r.msg)
    /\ UNCHANGED <<resume_data, resume_files, progress_tasks>>

\* a publish task created by a progress hook runs
ProgressPublished(w) ==
    /\ progress_tasks[w] # <<>>
    /\ publish(Head(progress_tasks[w]))
    /\ progress_tasks' = [progress_tasks EXCEPT ![w] = Tail(@)]
    /\ ret' = NoCall
    /\ UNCHANGED <<redis_jobs, job_queue, active_jobs, subscribers, runs,
                   procs, active_downloads, resume_data, resume_files, resume_tasks, shutdown, dl, bus, partial_files, storage, db, api>>

\* DownloadWorker.disconnect: set _shutdown and stop the consumer loops
disconnect(w) ==
    /\ ~shutdown[w]
    /\ shutdown' = [shutdown EXCEPT ![w] = TRUE]
    /\ subscribers' = subscribers \ {w}
    /\ ret' = NoCall
    /\ UNCHANGED <<redis_jobs, job_queue, active_jobs, queue, pubsub, runs,
                   procs, active_downloads, resume_data, resume_files, progress_tasks,
                   resume_tasks, dl, bus, partial_files, storage, db, api>>

\* the task objects of active_downloads that belong to a job, as references
\* (coroutine, position in its task list)
ActiveTasksOf(w, job_id) ==
    {active_downloads[w][t] : t \in {x \in DOMAIN active_downloads[w] : x.job_id = job_id}}

\* the coroutines of a worker after "task.status = status" on the task
\* objects refs
SetStatus(ps, refs, status) ==
    [p \in DOMAIN ps |->
        [ps[p] EXCEPT !.tasks =
            [k \in DOMAIN ps[p].tasks |->
                IF [proc |-> p, task |-> k] \in refs
                THEN [ps[p].tasks[k] EXCEPT !.status = status]
                ELSE ps[p].tasks[k]]]]

TaskAt(w, ref) == procs[w][ref.proc].tasks[ref.task]

\* the task ids _save_resume_data stores when called on each task of refs
SavedBy(w, refs) == {TaskAt(w, ref).id : ref \in {x \in refs : TaskAt(w, x).file_path}}

\* DownloadWorker._handle_job_pause: every active task of the job becomes
\* PAUSED and its resume data is saved
_handle_job_pause(w) ==
    /\ Received(w, JOB_PAUSE)
    /\ LET refs == ActiveTasksOf(w, NextMessage(w, JOB_PAUSE).id)
       IN /\ procs' = [procs EXCEPT ![w] = SetStatus(@, refs, PAUSED)]
          /\ resume_data' = [resume_data EXCEPT ![w] = @ \cup SavedBy(w, refs)]
          /\ resume_files' = [resume_files EXCEPT ![w] = @ \cup SavedBy(w, refs)]
    /\ Consume(w, JOB_PAUSE)
    /\ ret' = NoCall
    /\ UNCHANGED <<redis_jobs, job_queue, active_jobs, queue, subscribers, runs,
                   active_downloads, progress_tasks, resume_tasks, shutdown, dl, bus, partial_files, storage, db, api>>

\* the references of a set of task objects, in the order of the dictionary
RECURSIVE RefSeq(_)
RefSeq(refs) ==
    IF refs = {} THEN <<>>
    ELSE LET r == CHOOSE x \in refs :
                      \A y \in refs : x.proc < y.proc \/ (x.proc = y.proc /\ x.task <= y.task)
         IN <<[ref |-> r, pc |-> "start"]>> \o RefSeq(refs \ {r})

\* DownloadWorker._handle_job_resume: every active PAUSED task of the job
\* becomes RUNNING; for one with resume data,
\* asyncio.create_task(self._resume_download(task, resume_data))
_handle_job_resume(w) ==
    /\ Received(w, JOB_RESUME)
    /\ LET refs == {r \in ActiveTasksOf(w, NextMessage(w, JOB_RESUME).id) :
                       TaskAt(w, r).status = PAUSED}
           resumed == {r \in refs : HasResumeData(w, TaskAt(w, r).id)}
       IN /\ procs' = [procs EXCEPT ![w] = SetStatus(@, refs, RUNNING)]
          /\ resume_tasks' = [resume_tasks EXCEPT ![w] = @ \o RefSeq(resumed)]
    /\ Consume(w, JOB_RESUME)
    /\ ret' = NoCall
    /\ UNCHANGED <<redis_jobs, job_queue, active_jobs, queue, subscribers, runs,
                   active_downloads, resume_data, resume_files, progress_tasks, shutdown, dl, bus, partial_files, storage, db, api>>

\* DownloadWorker._handle_job_cancelled: every active task of the job becomes
\* CANCELLED and leaves active_downloads
_handle_job_cancelled(w) ==
    /\ Received(w, JOB_CANCELLED)
    /\ LET job_id == NextMessage(w, JOB_CANCELLED).id
       IN /\ procs' = [procs EXCEPT ![w] = SetStatus(@, ActiveTasksOf(w, job_id), CANCELLED)]
          /\ active_downloads' = [active_downloads EXCEPT ![w] =
                 [t \in {x \in DOMAIN @ : x.job_id # job_id} |-> @[t]]]
    /\ Consume(w, JOB_CANCELLED)
    /\ ret' = NoCall
    /\ UNCHANGED <<redis_jobs, job_queue, active_jobs, queue, subscribers, runs,
                   resume_data, resume_files, progress_tasks, resume_tasks, shutdown, dl, bus, partial_files, storage, db, api>>

\* a _resume_download task created by _handle_job_resume starts: it publishes
\* download_resume
ResumeTaskStarts(w, r) ==
    /\ resume_tasks[w][r].pc = "start"
    /\ publish(create_download_message(TaskAt(w, resume_tasks[w][r].ref).id,
                                       DOWNLOAD_RESUME, NoPayload, 0))
    /\ resume_tasks' = [resume_tasks EXCEPT ![w][r].pc = "engine"]
    /\ ret' = NoCall
    /\ UNCHANGED <<redis_jobs, job_queue, active_jobs, subscribers, runs, procs,
                   active_downloads, resume_data, resume_files, progress_tasks, shutdown, dl, bus, partial_files, storage, db, api>>

\* a _resume_download task created by _handle_job_resume runs the fetch
\* engine: on success the task is COMPLETED, its resume data is cleared and
\* download_completed is published; on an exception the task is FAILED and
\* the exception ends the asyncio task, which nobody awaits
ResumeTaskRuns(w, r, success, reports) ==
    /\ resume_tasks[w][r].pc = "engine"
    /\ LET ref == resume_tasks[w][r].ref
           task == TaskAt(w, ref)
       IN /\ progress_tasks' = [progress_tasks EXCEPT ![w] = @ \o ProgressHooks(task.id, reports)]
          /\ IF success
             THEN /\ procs' = [procs EXCEPT ![w][ref.proc].tasks[ref.task].status = COMPLETED,
                                            ![w][ref.proc].tasks[ref.task].file_path = TRUE]
                  /\ resume_data' = [resume_data EXCEPT ![w] = _clear_resume_data(@, task.id)]
                  /\ resume_files' = [resume_files EXCEPT ![w] = _clear_resume_data(@, task.id)]
                  /\ publish(create_download_message(task.id, DOWNLOAD_COMPLETED, NoPayload, 0))
             ELSE /\ procs' = [procs EXCEPT ![w][ref.proc].tasks[ref.task].status = FAILED]
                  /\ UNCHANGED <<resume_data, resume_files, queue, pubsub>>
    /\ resume_tasks' = [resume_tasks EXCEPT ![w][r].pc = "done"]
    /\ ret' = NoCall
    /\ UNCHANGED <<redis_jobs, job_queue, active_jobs, subscribers, runs,
                   active_downloads, shutdown, dl, bus, partial_files, storage, db, api>>

(* ---------------------------------------------------------------------- *)
(* youtube_downloader/core/downloader.py                                    *)
(* Delays are counted in tenths of a second.                               *)
(* ---------------------------------------------------------------------- *)
LiveBaseDelay == 5
StaticBaseDelay == 2
MaxDelay == 300
BackoffFactor == 2
DefaultMaxRetriesSetting == 10

RECURSIVE Pow(_, _)
Pow(b, n) == IF n = 0 THEN 1 ELSE b * Pow(b, n - 1)

\* base_delay = 5 if is_live else 2
BaseDelay(is_live) == IF is_live THEN LiveBaseDelay ELSE StaticBaseDelay

\* delay = base_delay * (2 ** retry_count); delay *= jitter
JitteredDelay(retry_count, is_live, jitter) ==
    BaseDelay(is_live) * Pow(BackoffFactor, retry_count) * jitter

\* delay = min(delay, max_delay)
Capped_not(delay) == delay
Capped(delay) == IF delay < MaxDelay * 10 THEN delay ELSE MaxDelay * 10

\* YouTubeDownloader._calculate_retry_delay, for one draw of the jitter
_calculate_retry_delay(retry_count, is_live, jitter) ==
    Capped(JitteredDelay(retry_count, is_live, jitter))

\* error messages of the fetch engine and the patterns of _is_retryable_error
RetryablePatterns == {"HTTP Error 403", "Connection reset"}
LiveRetryablePatterns == {"Stream ended"}
EngineErrors == {"HTTP Error 403", "Stream ended", "Video unavailable"}

\* YouTubeDownloader._is_retryable_error
_is_retryable_error(error_msg, is_live) ==
    error_msg \in RetryablePatterns \cup (IF is_live THEN LiveRetryablePatterns ELSE {})

\* "retry_count >= max_retries" of the except branch
RetriesExhausted_never(retry_count, max_retries) == FALSE
RetriesExhausted(retry_count, max_retries) == retry_count >= max_retries

\* self._stop_event.wait(timeout=retry_delay) returns True
WaitInterrupted_never(d) == FALSE
WaitInterrupted(d) == d.stop

\* no call of download_single_video yet; attempts counts the calls of
\* ydl.extract_info, stopped records the call count and the position of the
\* call at the time stop_all_downloads set the event
NotCalled ==
    [pc |-> "idle", is_live |-> FALSE, max_retries |-> DefaultMaxRetriesSetting,
     retry_count |-> 0, stop |-> FALSE, attempts |-> 0, error |-> "",
     retries |-> 0, jittered |-> 0, retry_delay |-> 0, result |-> "none",
     stopped |-> [attempts |-> 0, pc |-> "idle"]]

otherVars == <<redis_jobs, job_queue, active_jobs, queue, pubsub, subscribers, ret, runs,
               workerVars, bus, partial_files, storage, db, api>>

Return(d, result) == [d EXCEPT !.pc = "returned", !.result = result]

\* download_single_video is called: the check of the stop event at its top
download_single_video ==
    /\ dl.pc = "idle"
    /\ dl' = IF dl.stop THEN Return(dl, "Download cancelled by user")
             ELSE [dl EXCEPT !.pc = "loop"]
    /\ UNCHANGED otherVars

\* "while retry_count <= max_retries" and the check of the stop event before
\* the download starts
LoopHead ==
    /\ dl.pc = "loop"
    /\ dl' = IF dl.retry_count > dl.max_retries THEN Return(dl, "Max retries exceeded")
             ELSE IF dl.stop THEN Return(dl, "Download cancelled by user")
             ELSE [dl EXCEPT !.pc = "fetch"]
    /\ UNCHANGED otherVars

\* "with YoutubeDL(ydl_opts) as ydl: info = ydl.extract_info(url, download=True)"
\* is entered
FetchStarts ==
    /\ dl.pc = "fetch"
    /\ dl' = [dl EXCEPT !.pc = "fetching", !.attempts = @ + 1]
    /\ UNCHANGED otherVars

\* extract_info returns
FetchSucceeds ==
    /\ dl.pc = "fetching"
    /\ dl' = IF dl.stop THEN Return(dl, "Download interrupted by user")
             ELSE Return(dl, "success")
    /\ UNCHANGED otherVars

\* extract_info raises: the except branch up to the backoff wait
FetchFails(error_msg, jitter) ==
    /\ dl.pc = "fetching"
    /\ dl' = IF \/ ~_is_retryable_error(error_msg, dl.is_live)
                \/ RetriesExhausted(dl.retry_count, dl.max_retries)
             THEN [Return(dl, error_msg) EXCEPT !.error = error_msg]
             ELSE [dl EXCEPT !.pc = "wait", !.error = error_msg, !.retries = @ + 1,
                       !.jittered = JitteredDelay(dl.retry_count, dl.is_live, jitter),
                       !.retry_delay = _calculate_retry_delay(dl.retry_count, dl.is_live, jitter)]
    /\ UNCHANGED otherVars

\* the backoff wait ends: at once if the stop event is set, else after
\* retry_delay, and then "retry_count += 1"
WaitEnds ==
    /\ dl.pc = "wait"
    /\ dl' = IF WaitInterrupted(dl) THEN Return(dl, "Download cancelled by user")
             ELSE [dl EXCEPT !.pc = "loop", !.retry_count = @ + 1]
    /\ UNCHANGED otherVars

\* YouTubeDownloader.stop_all_downloads, called from another thread
stop_all_downloads ==
    /\ ~dl.stop
    /\ dl' = [dl EXCEPT !.stop = TRUE, !.stopped = [attempts |-> dl.attempts, pc |-> dl.pc]]
    /\ UNCHANGED otherVars

\* the worker processes after construction
WorkersInit ==
    /\ procs = [w \in Workers |-> <<>>]
    /\ active_downloads = [w \in Workers |-> EmptyMap]
    /\ resume_data = [w \in Workers |-> {}]
    /\ resume_files = [w \in Workers |-> {}]
    /\ progress_tasks = [w \in Workers |-> <<>>]
    /\ resume_tasks = [w \in Workers |-> <<>>]
    /\ shutdown = [w \in Workers |-> FALSE]

(* ---------------------------------------------------------------------- *)
(* Specification of the Job Manager                                        *)
(* ---------------------------------------------------------------------- *)
Init ==
    /\ redis_jobs = EmptyMap
    /\ job_queue = EmptyMap
    /\ active_jobs = EmptyMap
    /\ queue = [t \in MessageType |-> <<>>]
    /\ pubsub = [s \in Services |-> [t \in MessageType |-> <<>>]]
    /\ subscribers = {JM}
    /\ ret = NoCall
    /\ runs = {}
    /\ WorkersInit
    /\ dl = NotCalled
    /\ bus = NoBus
    /\ partial_files = {}
    /\ storage = EmptyStorage
    /\ db = EmptyDb
    /\ api = EmptyApi

Next ==
    \E now \in Seconds :
        \/ \E urls \in UrlLists, config \in Configs, priority \in Priorities :
              create_job(urls, config, priority, now)
        \/ \E job_id \in JobIds : cancel_job(job_id, now)
        \/ \E job_id \in JobIds : pause_job(job_id, now)
        \/ \E job_id \in JobIds : resume_job(job_id, now)
        \/ _handle_job_started(now)
        \/ _handle_job_completed(now)
        \/ _handle_job_failed(now)
        \/ _handle_job_progress
        \/ \E job_id \in JobIds : WorkerJobStarted(job_id, now)
        \/ \E job_id \in JobIds : WorkerJobProgress(job_id, now)
        \/ \E job_id \in JobIds : WorkerJobCompleted(job_id, now)
        \/ \E job_id \in JobIds : WorkerJobFailed(job_id, now)
        \/ \E type \in MessageType, limit \in Limits : get_pending_messages(type, limit)

Spec == Init /\ [][Next]_vars

(* ---------------------------------------------------------------------- *)
(* Properties of the Job Manager (checked under Spec)                      *)
(* ---------------------------------------------------------------------- *)
\* the step is the job_failed handler, handling a message about job_id
HandlesJobFailed(job_id) ==
    /\ Received(JM, JOB_FAILED)
    /\ NextMessage(JM, JOB_FAILED).id = job_id
    /\ \E now \in Seconds : _handle_job_failed(now)

\* the step is a call of POST /jobs
CreatesJob ==
    \E urls \in UrlLists, config \in Configs, priority \in Priorities, now \in Seconds :
        create_job(urls, config, priority, now)

\* the named lists of the backlog are all that a step changed in the bus
OnlyPublished(type, job_id) ==
    /\ Len(queue'[type]) = Len(queue[type]) + 1
    /\ Head(queue'[type]).id = job_id
    /\ Head(queue'[type]).message_type = type
    /\ Tail(queue'[type]) = queue[type]
    /\ \A t \in MessageType \ {type} : queue'[t] = queue[t]

\* C1: terminal-state invariant: once the record of a job is COMPLETED,
\* FAILED or CANCELLED, no cancel_job, pause_job or resume_job and no
\* job_started, job_progress, job_completed or job_failed event changes its
\* status.
C1_TerminalStatusNeverChanges ==
    [][~CreatesJob =>
         \A j \in DOMAIN redis_jobs :
             redis_jobs[j].status \in Terminal =>
                 redis_jobs'[j].status = redis_jobs[j].status]_vars

\* the edges of the job state machine of the specification
StateMachineEdges ==
    {<<PENDING, QUEUED>>, <<QUEUED, RUNNING>>, <<RUNNING, COMPLETED>>,
     <<RUNNING, FAILED>>, <<RUNNING, PAUSED>>, <<PAUSED, QUEUED>>,
     <<RUNNING, QUEUED>>}
    \cup {<<st, CANCELLED>> : st \in JobStatus \ Terminal}

\* C2: every status change written to a job record follows an edge of the
\* state machine (PENDING->QUEUED, QUEUED->RUNNING, RUNNING->COMPLETED,
\* RUNNING->FAILED, non-terminal->CANCELLED, RUNNING->PAUSED, PAUSED->QUEUED,
\* the retry edge RUNNING->QUEUED); no other edge is taken.
C2_StatusChangesFollowEdges ==
    [][~CreatesJob =>
         \A j \in DOMAIN redis_jobs :
             redis_jobs'[j].status # redis_jobs[j].status =>
                 <<redis_jobs[j].status, redis_jobs'[j].status>> \in StateMachineEdges]_vars

\* C5: a job that is FAILED with retry_count at or above max_retries is
\* still FAILED after the job_failed handler handles another job_failed
\* message for it.
C5_FailedStaysFailedOnDuplicate ==
    [][\A j \in DOMAIN redis_jobs :
          (/\ HandlesJobFailed(j)
           /\ redis_jobs[j].status = FAILED
           /\ redis_jobs[j].retry_count >= redis_jobs[j].max_retries)
          => redis_jobs'[j].status = FAILED]_vars

\* a further job_failed is about to be handled for a job that is FAILED with
\* its retries exhausted
C5_Witness ==
    \E j \in DOMAIN redis_jobs :
        /\ redis_jobs[j].status = FAILED
        /\ redis_jobs[j].retry_count >= redis_jobs[j].max_retries
        /\ ENABLED HandlesJobFailed(j)

\* C6: handling job_failed for an existing job increments retry_count by one
\* and records the error; if the new retry_count is below max_retries the
\* job is QUEUED and a member of job_queue, otherwise it is FAILED with
\* completed_at set.
C6_JobFailedHandling ==
    [][\A j \in JobIds :
          (HandlesJobFailed(j) /\ HasJob(j)) =>
             LET old == get_job(j)
                 new == redis_jobs'[j]
             IN /\ new.retry_count = old.retry_count + 1
                /\ new.error = NextMessage(JM, JOB_FAILED).payload.error
                /\ IF new.retry_count < new.max_retries
                   THEN new.status = QUEUED /\ j \in DOMAIN job_queue'
                   ELSE new.status = FAILED /\ new.completed_at # NoTime]_vars

\* a first job_failed has been handled: the job is back in the queue
C6_Witness ==
    \E j \in DOMAIN redis_jobs :
        /\ redis_jobs[j].status = QUEUED
        /\ redis_jobs[j].retry_count = 1
        /\ redis_jobs[j].error # NoError
        /\ j \in DOMAIN job_queue

\* C7: cancel_job on a job in a non-terminal state sets the status to
\* CANCELLED, removes the id from job_queue, publishes exactly one
\* job_cancelled and returns true; on a terminal or unknown job it returns
\* false and leaves the records, the queue and the bus unchanged.
C7_CancelJob ==
    [][\A j \in JobIds :
          (\E now \in Seconds : cancel_job(j, now)) =>
             IF HasJob(j) /\ get_job(j).status \notin Terminal
             THEN /\ ret' = Returned(TRUE)
                  /\ redis_jobs'[j].status = CANCELLED
                  /\ j \notin DOMAIN job_queue'
                  /\ OnlyPublished(JOB_CANCELLED, j)
             ELSE /\ ret' = Returned(FALSE)
                  /\ UNCHANGED <<redis_jobs, job_queue, active_jobs, queue, pubsub, dl, bus, partial_files, storage, db, api>>]_vars

\* a queued job has just been cancelled
C7_Witness ==
    /\ ret = Returned(TRUE)
    /\ \E j \in DOMAIN redis_jobs :
          /\ redis_jobs[j].status = CANCELLED
          /\ j \notin DOMAIN job_queue
          /\ CountMsgs(queue, JOB_CANCELLED, j) = 1

\* C8: pause_job succeeds only when the status is RUNNING: the status becomes
\* PAUSED and one job_pause is published; from every other status it returns
\* false, changes nothing in the store and publishes nothing.
C8_PauseJob ==
    [][\A j \in JobIds :
          (\E now \in Seconds : pause_job(j, now)) =>
             IF HasJob(j) /\ get_job(j).status = RUNNING
             THEN /\ ret' = Returned(TRUE)
                  /\ redis_jobs'[j].status = PAUSED
                  /\ OnlyPublished(JOB_PAUSE, j)
             ELSE /\ ret' = Returned(FALSE)
                  /\ UNCHANGED <<redis_jobs, job_queue, active_jobs, queue, pubsub, dl, bus, partial_files, storage, db, api>>]_vars

\* a running job has just been paused
C8_Witness ==
    /\ ret = Returned(TRUE)
    /\ \E j \in DOMAIN redis_jobs :
          /\ redis_jobs[j].status = PAUSED
          /\ redis_jobs[j].started_at # NoTime
          /\ CountMsgs(queue, JOB_PAUSE, j) = 1

\* C9: resume_job succeeds only when the status is PAUSED: the status becomes
\* QUEUED, the id is a member of job_queue and one job_resume is published;
\* from every other status it returns false, changes nothing and publishes
\* nothing.
C9_ResumeJob ==
    [][\A j \in JobIds :
          (\E now \in Seconds : resume_job(j, now)) =>
             IF HasJob(j) /\ get_job(j).status = PAUSED
             THEN /\ ret' = Returned(TRUE)
                  /\ redis_jobs'[j].status = QUEUED
                  /\ j \in DOMAIN job_queue'
                  /\ OnlyPublished(JOB_RESUME, j)
             ELSE /\ ret' = Returned(FALSE)
                  /\ UNCHANGED <<redis_jobs, job_queue, active_jobs, queue, pubsub, dl, bus, partial_files, storage, db, api>>]_vars

\* a paused job has just been resumed
C9_Witness ==
    /\ ret = Returned(TRUE)
    /\ \E j \in DOMAIN redis_jobs :
          /\ redis_jobs[j].status = QUEUED
          /\ redis_jobs[j].started_at # NoTime
          /\ j \in DOMAIN job_queue
          /\ CountMsgs(queue, JOB_RESUME, j) = 1

\* C10: create with an empty URL list is rejected: no record is written,
\* nothing is enqueued and no job_created enters the bus; create with a
\* non-empty list writes the record as PENDING, enqueues the id and publishes
\* exactly one job_created carrying the same urls.
C10_CreateJob ==
    [][\A urls \in UrlLists :
          (\E config \in Configs, priority \in Priorities, now \in Seconds :
                create_job(urls, config, priority, now)) =>
             IF urls = <<>>
             THEN /\ ret' = Returned(FALSE)
                  /\ UNCHANGED <<redis_jobs, job_queue, active_jobs, queue, pubsub, dl, bus, partial_files, storage, db, api>>
             ELSE \E j \in DOMAIN redis_jobs' :
                  /\ ret' = Returned(TRUE)
                  /\ redis_jobs'[j].status = PENDING
                  /\ redis_jobs'[j].urls = urls
                  /\ j \in DOMAIN job_queue'
                  /\ OnlyPublished(JOB_CREATED, j)
                  /\ Head(queue'[JOB_CREATED]).payload.urls = urls]_vars

\* a job has just been created: PENDING, enqueued and announced once
C10_Witness ==
    /\ ret = Returned(TRUE)
    /\ \E j \in DOMAIN redis_jobs :
          /\ redis_jobs[j].status = PENDING
          /\ j \in DOMAIN job_queue
          /\ CountMsgs(queue, JOB_CREATED, j) = 1
    /\ \A t \in MessageType \ {JOB_CREATED} : queue[t] = <<>>

\* C11: job identifiers are unique: a create_job call that creates a job
\* returns an id under which no record of an earlier job is stored, so no
\* create overwrites the record of an earlier job.
C11_JobIdsUnique ==
    [][\A urls \in UrlLists, config \in Configs, priority \in Priorities, now \in Seconds :
          (create_job(urls, config, priority, now) /\ ~UrlsMissing(urls))
              => JobId(now, urls) \notin DOMAIN redis_jobs]_vars

(* ---------------------------------------------------------------------- *)
(* Specification of the Download Worker processes                          *)
(* ---------------------------------------------------------------------- *)
\* .resume_{task_id}.json files an earlier process of a worker left in its
\* download_dir (written by _save_resume_data, read back by _load_resume_data)
LeftOverResumeFiles == {TaskId(JobId(t, u), 0) : t \in Seconds, u \in WorkerUrlLists}

InitW ==
    /\ redis_jobs = EmptyMap
    /\ job_queue = EmptyMap
    /\ active_jobs = EmptyMap
    /\ queue = [t \in MessageType |-> <<>>]
    /\ pubsub = [s \in Services |-> [t \in MessageType |-> <<>>]]
    /\ subscribers = Workers
    /\ ret = NoCall
    /\ runs = {}
    /\ procs = [w \in Workers |-> <<>>]
    /\ active_downloads = [w \in Workers |-> EmptyMap]
    /\ resume_data = [w \in Workers |-> {}]
    /\ resume_files \in [Workers -> SUBSET LeftOverResumeFiles]
    /\ progress_tasks = [w \in Workers |-> <<>>]
    /\ resume_tasks = [w \in Workers |-> <<>>]
    /\ shutdown = [w \in Workers |-> FALSE]
    /\ dl = NotCalled
    /\ bus = NoBus
    /\ partial_files = LeftOverResumeFiles
    /\ storage = EmptyStorage
    /\ db = EmptyDb
    /\ api = EmptyApi

NextW ==
    \/ \E urls \in WorkerUrlLists, config \in Configs, priority \in Priorities, now \in Seconds :
          create_job(urls, config, priority, now)
    \/ \E w \in Workers : _handle_job_created(w)
    \/ \E w \in Workers : \E p \in 1..Len(procs[w]) : ProcessJobStart(w, p)
    \/ \E w \in Workers : \E p \in 1..Len(procs[w]) : ProcessJobLoop(w, p)
    \/ \E w \in Workers : \E p \in 1..Len(procs[w]) :
          \E success \in BOOLEAN, reports \in ProgressReports :
             DownloadTaskRuns(w, p, success, reports)
    \/ \E w \in Workers : \E p \in 1..Len(procs[w]) :
          \E success \in BOOLEAN, reports \in ProgressReports :
             ResumeDownloadRuns(w, p, success, reports)
    \/ \E w \in Workers : \E p \in 1..Len(procs[w]) : TaskReturned(w, p)
    \/ \E w \in Workers : \E p \in 1..Len(procs[w]) : TaskFinished(w, p)
    \/ \E w \in Workers : ProgressPublished(w)
    \/ \E w \in Workers : disconnect(w)

SpecW == InitW /\ [][NextW]_vars

(* ---------------------------------------------------------------------- *)
(* Properties of the Download Worker processes (under SpecW, where nothing  *)
(* removes a message from the backlog lists, so that queue holds every      *)
(* message ever published)                                                  *)
(* ---------------------------------------------------------------------- *)
\* download_started messages ever published for the tasks of a job
DownloadStartedFor(job_id) ==
    Cardinality({i \in 1..Len(queue[DOWNLOAD_STARTED]) :
                    queue[DOWNLOAD_STARTED][i].id.job_id = job_id})

\* the task ids a worker has started to download
DownloadedBy(w) ==
    {procs[w][p].tasks[k].id : <<p, k>> \in
        {x \in (1..Len(procs[w])) \X (1..2) :
            /\ x[2] <= Len(procs[w][x[1]].tasks)
            /\ procs[w][x[1]].tasks[x[2]].status # QUEUED}}

\* C3: for every job created with N URLs, the download_started messages ever
\* published for the tasks of the job never number more than N, however
\* often its job_created message is delivered.
C3_IdempotentExpansion ==
    \A job_id \in DOMAIN redis_jobs :
        DownloadStartedFor(job_id) <= Len(redis_jobs[job_id].urls)

\* C4: with two or more workers subscribed to job_created, every task id of
\* a job is downloaded by at most one worker.
C4_CompetingConsumers ==
    \A w1 \in Workers, w2 \in Workers :
        w1 # w2 => DownloadedBy(w1) \cap DownloadedBy(w2) = {}

\* the terminal download messages (download_completed, download_failed)
\* published so far for a task
TerminalEvents(task_id) ==
    CountMsgs(queue, DOWNLOAD_COMPLETED, task_id) + CountMsgs(queue, DOWNLOAD_FAILED, task_id)

\* C15: the download messages of a task are published in the order started,
\* progress*, terminal: when a download_progress message of a task is
\* published, its download_started has been published and neither its
\* download_completed nor its download_failed has.
C15_ProgressBeforeTerminal ==
    [][\A w \in Workers :
          ProgressPublished(w) =>
              LET task_id == Head(progress_tasks[w]).id
              IN /\ CountMsgs(queue, DOWNLOAD_STARTED, task_id)
                        + CountMsgs(queue, DOWNLOAD_RESUME, task_id) > 0
                 /\ TerminalEvents(task_id) = 0]_vars

(* ---------------------------------------------------------------------- *)
(* Specification of one job from creation to completion: the Job Manager   *)
(* and one Download Worker, a job of two URLs, no download fails            *)
(* ---------------------------------------------------------------------- *)
ClaimingWorker == "w1"

InitJob ==
    /\ redis_jobs = EmptyMap
    /\ job_queue = EmptyMap
    /\ active_jobs = EmptyMap
    /\ queue = [t \in MessageType |-> <<>>]
    /\ pubsub = [s \in Services |-> [t \in MessageType |-> <<>>]]
    /\ subscribers = {JM, ClaimingWorker}
    /\ ret = NoCall
    /\ runs = {}
    /\ WorkersInit
    /\ dl = NotCalled
    /\ bus = NoBus
    /\ partial_files = {}
    /\ storage = EmptyStorage
    /\ db = EmptyDb
    /\ api = EmptyApi

NextJob ==
    \/ \E urls \in WorkerUrlLists, config \in Configs, priority \in Priorities, now \in Seconds :
          create_job(urls, config, priority, now)
    \/ _handle_job_created(ClaimingWorker)
    \/ \E p \in 1..Len(procs[ClaimingWorker]) : ProcessJobStart(ClaimingWorker, p)
    \/ \E p \in 1..Len(procs[ClaimingWorker]) : ProcessJobLoop(ClaimingWorker, p)
    \/ \E p \in 1..Len(procs[ClaimingWorker]) : \E reports \in ProgressReports :
          DownloadTaskRuns(ClaimingWorker, p, TRUE, reports)
    \/ \E p \in 1..Len(procs[ClaimingWorker]) : TaskReturned(ClaimingWorker, p)
    \/ \E p \in 1..Len(procs[ClaimingWorker]) : TaskFinished(ClaimingWorker, p)
    \/ ProgressPublished(ClaimingWorker)
    \/ \E now \in Seconds : _handle_job_started(now)
    \/ _handle_job_progress
    \/ \E now \in Seconds : _handle_job_completed(now)

SpecJob == InitJob /\ [][NextJob]_vars

\* C12: for a job created with two URLs and no failures, the status of the
\* record passes through PENDING, then QUEUED, then RUNNING: the record
\* becomes RUNNING only from QUEUED.
C12_QueuedBeforeRunning ==
    [][\A j \in DOMAIN redis_jobs :
          (redis_jobs'[j].status = RUNNING /\ redis_jobs[j].status # RUNNING)
              => redis_jobs[j].status = QUEUED]_vars

(* ---------------------------------------------------------------------- *)
(* Specification of the Job Manager with restarts of its process            *)
(* ---------------------------------------------------------------------- *)
\* the Job Manager process stops (lifespan shutdown: the consumer loops are
\* cancelled and unsubscribe) and a new process starts: JobManager() with
\* active_jobs = {}, then connect(); Redis keeps the records and the lists
RestartJobManager ==
    /\ active_jobs' = EmptyMap
    /\ pubsub' = [pubsub EXCEPT ![JM] = [t \in MessageType |-> <<>>]]
    /\ ret' = NoCall
    /\ UNCHANGED <<redis_jobs, job_queue, queue, subscribers, runs, workerVars, dl, bus, partial_files, storage, db, api>>

NextRestart == Next \/ RestartJobManager

SpecRestart == Init /\ [][NextRestart]_vars

\* C13: whenever the Job Manager handles a job_completed event for a job
\* whose record exists and is RUNNING, the record becomes COMPLETED with
\* progress 100, whether or not this manager process has handled the
\* job_started event of the job.
C13_CompletedEventCompletesRunningJob ==
    [][\A now \in Seconds, j \in JobIds :
          (/\ Received(JM, JOB_COMPLETED)
           /\ NextMessage(JM, JOB_COMPLETED).id = j
           /\ j \in DOMAIN redis_jobs
           /\ redis_jobs[j].status = RUNNING
           /\ _handle_job_completed(now))
              => /\ redis_jobs'[j].status = COMPLETED
                 /\ redis_jobs'[j].progress = 100]_vars

(* ---------------------------------------------------------------------- *)
(* Specification of a Download Worker under pause, resume and cancel.      *)
(* The Job Manager is seen as the worker sees it: pause_job publishes      *)
(* job_pause for a job that is RUNNING (its job_started has been           *)
(* published), resume_job publishes job_resume for a job that is PAUSED,   *)
(* cancel_job publishes job_cancelled for a job that is not CANCELLED.     *)
(* Nothing removes a message from the backlog lists.                       *)
(* ---------------------------------------------------------------------- *)
Published(type, job_id) == CountMsgs(queue, type, job_id)

ManagerPublishes(type, job_id) ==
    /\ job_id \in DOMAIN redis_jobs
    /\ Published(type, job_id) < MaxControls
    /\ publish(create_job_message(job_id, type, NoPayload, 0))
    /\ ret' = Returned(TRUE)
    /\ UNCHANGED <<redis_jobs, job_queue, active_jobs, subscribers, runs, workerVars, dl, bus, partial_files, storage, db, api>>

\* JobManager.pause_job as the worker sees it
ManagerPauses(job_id) ==
    /\ Published(JOB_STARTED, job_id) > 0
    /\ Published(JOB_PAUSE, job_id) = Published(JOB_RESUME, job_id)
    /\ Published(JOB_CANCELLED, job_id) = 0
    /\ ManagerPublishes(JOB_PAUSE, job_id)

\* JobManager.resume_job as the worker sees it
ManagerResumes(job_id) ==
    /\ Published(JOB_PAUSE, job_id) > Published(JOB_RESUME, job_id)
    /\ Published(JOB_CANCELLED, job_id) = 0
    /\ ManagerPublishes(JOB_RESUME, job_id)

\* JobManager.cancel_job as the worker sees it
ManagerCancels(job_id) == ManagerPublishes(JOB_CANCELLED, job_id)

InitCtl ==
    /\ redis_jobs = EmptyMap
    /\ job_queue = EmptyMap
    /\ active_jobs = EmptyMap
    /\ queue = [t \in MessageType |-> <<>>]
    /\ pubsub = [s \in Services |-> [t \in MessageType |-> <<>>]]
    /\ subscribers = {ClaimingWorker}
    /\ ret = NoCall
    /\ runs = {}
    /\ WorkersInit
    /\ dl = NotCalled
    /\ bus = NoBus
    /\ partial_files = {}
    /\ storage = EmptyStorage
    /\ db = EmptyDb
    /\ api = EmptyApi

NextCtl ==
    \/ \E urls \in WorkerUrlLists, config \in Configs, priority \in Priorities, now \in Seconds :
          create_job(urls, config, priority, now)
    \/ \E job_id \in JobIds : ManagerPauses(job_id)
    \/ \E job_id \in JobIds : ManagerResumes(job_id)
    \/ \E job_id \in JobIds : ManagerCancels(job_id)
    \/ _handle_job_created(ClaimingWorker)
    \/ _handle_job_pause(ClaimingWorker)
    \/ _handle_job_resume(ClaimingWorker)
    \/ _handle_job_cancelled(ClaimingWorker)
    \/ \E p \in 1..Len(procs[ClaimingWorker]) : ProcessJobStart(ClaimingWorker, p)
    \/ \E p \in 1..Len(procs[ClaimingWorker]) : ProcessJobLoop(ClaimingWorker, p)
    \/ \E p \in 1..Len(procs[ClaimingWorker]) :
          \E success \in BOOLEAN, reports \in ProgressReports :
             DownloadTaskRuns(ClaimingWorker, p, success, reports)
    \/ \E p \in 1..Len(procs[ClaimingWorker]) : TaskReturned(ClaimingWorker, p)
    \/ \E p \in 1..Len(procs[ClaimingWorker]) : TaskFinished(ClaimingWorker, p)
    \/ \E r \in 1..Len(resume_tasks[ClaimingWorker]) : ResumeTaskStarts(ClaimingWorker, r)
    \/ \E r \in 1..Len(resume_tasks[ClaimingWorker]) :
          \E success \in BOOLEAN, reports \in ProgressReports :
             ResumeTaskRuns(ClaimingWorker, r, success, reports)
    \/ ProgressPublished(ClaimingWorker)
    \/ disconnect(ClaimingWorker)

SpecCtl == InitCtl /\ [][NextCtl]_vars

\* the tasks of a coroutine whose download succeeded (the fetch engine
\* returned and the task was set COMPLETED)
Succeeded(pr) == {k \in 1..Len(pr.tasks) : pr.tasks[k].file_path}

\* C14: each run of _process_job publishes exactly one terminal job message:
\* job_completed if and only if every one of its N tasks reached COMPLETED,
\* otherwise job_failed whose error names how many of the N tasks succeeded.
C14_OneTerminalJobMessage ==
    \A p \in 1..Len(procs[ClaimingWorker]) :
        LET pr == procs[ClaimingWorker][p]
            all == Cardinality(Succeeded(pr)) = Len(pr.tasks)
        IN pr.pc = "done" =>
              /\ Published(JOB_COMPLETED, pr.job_id) = (IF all THEN 1 ELSE 0)
              /\ Published(JOB_FAILED, pr.job_id) = (IF all THEN 0 ELSE 1)
              /\ ~all => Head(queue[JOB_FAILED]).payload.error
                             = ErrorOf(Cardinality(Succeeded(pr)), Len(pr.tasks))

\* C16: for every task the worker starts, at most one terminal download
\* event (download_completed or download_failed) is published over the whole
\* lifetime of the task, under any interleaving of the handling of job_pause,
\* job_resume and job_cancelled with the processing of the task.
C16_OneTerminalDownloadEvent ==
    \A p \in 1..Len(procs[ClaimingWorker]) :
        \A k \in 1..Len(procs[ClaimingWorker][p].tasks) :
            TerminalEvents(procs[ClaimingWorker][p].tasks[k].id) <= 1

(* ---------------------------------------------------------------------- *)
(* Specification of one call of download_single_video, with                *)
(* stop_all_downloads called from another thread at any time               *)
(* ---------------------------------------------------------------------- *)
InitDl ==
    /\ redis_jobs = EmptyMap
    /\ job_queue = EmptyMap
    /\ active_jobs = EmptyMap
    /\ queue = [t \in MessageType |-> <<>>]
    /\ pubsub = [s \in Services |-> [t \in MessageType |-> <<>>]]
    /\ subscribers = {}
    /\ ret = NoCall
    /\ runs = {}
    /\ WorkersInit
    /\ dl \in {[NotCalled EXCEPT !.is_live = live, !.max_retries = m] :
                  live \in BOOLEAN, m \in MaxRetriesConfigs}
    /\ bus = NoBus
    /\ partial_files = {}
    /\ storage = EmptyStorage
    /\ db = EmptyDb
    /\ api = EmptyApi

DownloaderStep ==
    \/ download_single_video
    \/ LoopHead
    \/ FetchStarts
    \/ FetchSucceeds
    \/ \E error_msg \in EngineErrors, jitter \in JitterTenths : FetchFails(error_msg, jitter)
    \/ WaitEnds

NextDl == DownloaderStep \/ stop_all_downloads

SpecDl == InitDl /\ [][NextDl]_vars

\* the thread running download_single_video keeps running, and the fetch
\* engine returns or raises
SpecDlFair == SpecDl /\ WF_vars(DownloaderStep)

\* a retry delay has just been computed for attempt number dl.retry_count
DelayComputed == dl.pc = "wait"

\* C17: for every attempt number n and every jitter in [0.5, 1.5], the retry
\* delay is at most the cap (300 s) and, before capping, lies within
\* [base*2^n*0.5, base*2^n*1.5], where base is 5 for live streams and 2
\* otherwise.
C17_RetryDelayBounds ==
    DelayComputed =>
        LET base == IF dl.is_live THEN 5 ELSE 2
            n == dl.retry_count
        IN /\ dl.retry_delay <= 3000
           /\ base * Pow(2, n) * 5 <= dl.jittered
           /\ dl.jittered <= base * Pow(2, n) * 15
           /\ dl.retry_delay = (IF dl.jittered <= 3000 THEN dl.jittered ELSE 3000)

\* a delay above the cap was drawn and the cap was applied
C17_Witness ==
    /\ DelayComputed
    /\ dl.jittered > 3000
    /\ dl.retry_delay = 3000

\* C18: the retry delay is non-decreasing in the attempt number: the delay
\* computed for attempt n+1 is at least the delay computed for attempt n,
\* for every pair of jitter draws.
C18_DelayNonDecreasing ==
    [][(dl.pc = "fetching" /\ dl'.pc = "wait" /\ dl.retries > 0)
          => dl'.retry_delay >= dl.retry_delay]_vars

\* C19: task-level retries are bounded: download_single_video terminates,
\* calls the fetch engine at most max_retries + 1 times, waits and retries
\* only after an error classified as retryable while retry_count is below
\* max_retries, and otherwise returns the failure.
C19_RetriesBounded ==
    /\ [](dl.attempts <= dl.max_retries + 1)
    /\ [][\A error_msg \in EngineErrors, jitter \in JitterTenths :
             FetchFails(error_msg, jitter) =>
                IF /\ error_msg \in {"HTTP Error 403", "Connection reset"}
                          \cup (IF dl.is_live THEN {"Stream ended"} ELSE {})
                   /\ dl.retry_count < dl.max_retries
                THEN dl'.pc = "wait"
                ELSE dl'.pc = "returned" /\ dl'.result = error_msg]_vars
    /\ <>(dl.pc = "returned")

\* the last allowed attempt failed with a retryable error and the call
\* returned the failure
C19_Witness ==
    /\ dl.pc = "returned"
    /\ dl.max_retries = 10
    /\ dl.attempts = dl.max_retries + 1
    /\ dl.result = "HTTP Error 403"

NextFail ==
    \/ NextJob
    \/ \E p \in 1..Len(procs[ClaimingWorker]) : \E reports \in ProgressReports :
          DownloadTaskRuns(ClaimingWorker, p, FALSE, reports)
    \/ \E now \in Seconds : _handle_job_failed(now)

SpecFail == InitJob /\ [][NextFail]_vars

\* download_failed messages published for the tasks of a job, at most n each
FailedAtMost(job_id, n) ==
    \A k \in 1..Len(redis_jobs[job_id].urls) :
        CountMsgs(queue, DOWNLOAD_FAILED, TaskId(job_id, k - 1)) <= n

\* C21: task retries are independent of job retries: as long as no task of a
\* job has failed more than 3 times (task max_retries = 5), no job_failed is
\* published for the job and the retry_count of its record remains 0.
C21_TaskRetriesAreNotJobRetries ==
    \A job_id \in DOMAIN redis_jobs :
        FailedAtMost(job_id, 3) =>
            /\ CountMsgs(queue, JOB_FAILED, job_id) = 0
            /\ redis_jobs[job_id].retry_count = 0

(* ---------------------------------------------------------------------- *)
(* Specification of a Download Worker that starts consuming at any time,   *)
(* before or after the job is created                                      *)
(* ---------------------------------------------------------------------- *)
\* DownloadWorker.connect and MessageQueue.start_consuming: each consumer
\* loop subscribes to the pub/sub channel of its type; the backlog lists are
\* not read
connect(w) ==
    /\ w \notin subscribers
    /\ ~shutdown[w]
    /\ subscribers' = subscribers \cup {w}
    /\ ret' = NoCall
    /\ UNCHANGED <<redis_jobs, job_queue, active_jobs, queue, pubsub, runs, workerVars, dl, bus, partial_files, storage, db, api>>

InitLate ==
    /\ redis_jobs = EmptyMap
    /\ job_queue = EmptyMap
    /\ active_jobs = EmptyMap
    /\ queue = [t \in MessageType |-> <<>>]
    /\ pubsub = [s \in Services |-> [t \in MessageType |-> <<>>]]
    /\ subscribers = {}
    /\ ret = NoCall
    /\ runs = {}
    /\ WorkersInit
    /\ dl = NotCalled
    /\ bus = NoBus
    /\ partial_files = {}
    /\ storage = EmptyStorage
    /\ db = EmptyDb
    /\ api = EmptyApi

NextLate ==
    \/ \E urls \in WorkerUrlLists, config \in Configs, priority \in Priorities, now \in Seconds :
          create_job(urls, config, priority, now)
    \/ connect(ClaimingWorker)
    \/ disconnect(ClaimingWorker)
    \/ _handle_job_created(ClaimingWorker)
    \/ \E p \in 1..Len(procs[ClaimingWorker]) : ProcessJobStart(ClaimingWorker, p)
    \/ \E p \in 1..Len(procs[ClaimingWorker]) : ProcessJobLoop(ClaimingWorker, p)
    \/ \E p \in 1..Len(procs[ClaimingWorker]) :
          \E success \in BOOLEAN, reports \in ProgressReports :
             DownloadTaskRuns(ClaimingWorker, p, success, reports)
    \/ \E p \in 1..Len(procs[ClaimingWorker]) : TaskReturned(ClaimingWorker, p)
    \/ \E p \in 1..Len(procs[ClaimingWorker]) : TaskFinished(ClaimingWorker, p)
    \/ ProgressPublished(ClaimingWorker)

SpecLate == InitLate /\ [][NextLate]_vars

\* the handler of job_created of worker w has been invoked for the job
HandledJobCreated(w, job_id) == \E p \in 1..Len(procs[w]) : procs[w][p].job_id = job_id

\* the job_created message of the job waits in the connection of worker w
PendingJobCreated(w, job_id) ==
    \E i \in 1..Len(pubsub[w][JOB_CREATED]) : pubsub[w][JOB_CREATED][i].id = job_id

\* C22: at-least-once delivery: every message published on the bus is
\* delivered to every handler subscribed to its type, also to a subscriber
\* that starts consuming after the message was published: a job_created
\* message in the backlog has been handled by each subscribed worker or is
\* still to be delivered to it.
C22_AtLeastOnceDelivery ==
    \A w \in subscribers \cap Workers, job_id \in DOMAIN redis_jobs :
        CountMsgs(queue, JOB_CREATED, job_id) > 0 =>
            HandledJobCreated(w, job_id) \/ PendingJobCreated(w, job_id)

(* ---------------------------------------------------------------------- *)
(* Specification of one consumer loop of the message bus                   *)
(* ---------------------------------------------------------------------- *)
NextBus ==
    \/ \E callback \in Callbacks : subscribe(callback)
    \/ start_consuming
    \/ stop_consuming
    \/ MessageArrives
    \/ GetMessage
    \/ ConsumerExits
    \/ \E raises \in BOOLEAN : CallbackRuns(raises)
    \/ MessageDone

SpecBus == InitLate /\ [][NextBus]_vars

\* C23: for each message the consumer loop receives, the handlers registered
\* for its type are invoked exactly once each, in registration order; a
\* handler that raises neither prevents the later handlers from running nor
\* stops the consumer loop.
C23_AllHandlersInOrder ==
    /\ bus.pc = "dispatch" => bus.calls = SubSeq(bus.callbacks, 1, bus.next - 1)
    /\ bus.pc = "stopped" => ~bus._running

\* a message has been dispatched to two or more handlers, the first of which
\* raised
C23_Witness ==
    /\ bus.pc = "dispatch"
    /\ bus.next > Len(bus.callbacks)
    /\ Len(bus.calls) >= 2
    /\ bus.raised[1]

(* ---------------------------------------------------------------------- *)
(* Specification of redelivery: a message already published is received a  *)
(* second time by a subscribed service                                     *)
(* ---------------------------------------------------------------------- *)
Redeliver(s, type) ==
    /\ s \in Receivers(type)
    /\ InboxSize(s) < MaxInbox
    /\ \E i \in 1..Len(queue[type]) :
          pubsub' = [pubsub EXCEPT ![s][type] = Append(@, queue[type][i])]
    /\ ret' = NoCall
    /\ UNCHANGED <<redis_jobs, job_queue, active_jobs, queue, subscribers, runs, workerVars, dl, bus, partial_files, storage, db, api>>

NextAgain ==
    \/ NextFail
    \/ Redeliver(JM, JOB_FAILED)

SpecAgain == InitJob /\ [][NextAgain]_vars

\* C24: handlers are idempotent under redelivery: delivering the same message
\* twice leaves the job record, the priority queue, the worker's tasks and the
\* published messages as delivering it once does.  For job_failed: the retry
\* count of a job record never exceeds the number of job_failed messages
\* published for the job, however often each is delivered.
C24_HandlersIdempotent ==
    \A job_id \in DOMAIN redis_jobs :
        redis_jobs[job_id].retry_count <= CountMsgs(queue, JOB_FAILED, job_id)

\* the worker handles the job_pause message of the job in this step
HandlesJobPause(w, job_id) ==
    /\ Received(w, JOB_PAUSE)
    /\ NextMessage(w, JOB_PAUSE).id = job_id
    /\ _handle_job_pause(w)

\* the tasks of the job are PAUSED with resume data in memory and on disk
\* after the step
PausedWithResumeData(w, job_id) ==
    \A ref \in ActiveTasksOf(w, job_id) :
        /\ procs'[w][ref.proc].tasks[ref.task].status = PAUSED
        /\ TaskAt(w, ref).id \in resume_data'[w]
        /\ TaskAt(w, ref).id \in resume_files'[w]

\* a PAUSED task leaves PAUSED only through job_resume or job_cancelled
StaysPaused(w) ==
    \A p \in 1..Len(procs[w]) : \A k \in 1..Len(procs[w][p].tasks) :
        procs[w][p].tasks[k].status = PAUSED =>
            procs'[w][p].tasks[k].status \in {PAUSED, RUNNING, CANCELLED}

\* C25: pause is checkpointed: once the worker has handled job_pause for a
\* job, every active task of the job is PAUSED and has resume data in the
\* in-memory map and in the durable side-record, and the task stays PAUSED
\* (never COMPLETED or FAILED) until job_resume or job_cancelled is handled.
C25_PauseCheckpointed ==
    /\ [][\A job_id \in JobIds :
             HandlesJobPause(ClaimingWorker, job_id) =>
                 PausedWithResumeData(ClaimingWorker, job_id)]_vars
    /\ [][StaysPaused(ClaimingWorker)]_vars

\* the worker has handled the job_cancelled message published for the job
CancelHandled(w, job_id) ==
    /\ w \in subscribers
    /\ ~shutdown[w]
    /\ Published(JOB_CANCELLED, job_id) > 0
    /\ \A i \in 1..Len(pubsub[w][JOB_CANCELLED]) : pubsub[w][JOB_CANCELLED][i].id # job_id

\* download_started, download_completed, job_completed and job_failed
\* messages in the backlog q for the job and its tasks
RunEvents(q, job_id) ==
    CountMsgs(q, JOB_COMPLETED, job_id) + CountMsgs(q, JOB_FAILED, job_id)
    + SumLen([k \in 1..Len(redis_jobs[job_id].urls) |->
                 [i \in 1..(CountMsgs(q, DOWNLOAD_STARTED, TaskId(job_id, k - 1))
                            + CountMsgs(q, DOWNLOAD_COMPLETED, TaskId(job_id, k - 1))) |-> i]],
             1..Len(redis_jobs[job_id].urls))

\* C26: cancellation is effective at the worker: once the worker has handled
\* job_cancelled for a job, no task of the job is in its active set again, no
\* task of the job is started, and no further download_started,
\* download_completed, job_completed or job_failed is published for the job.
C26_CancelEffective ==
    /\ [](\A job_id \in DOMAIN redis_jobs :
             CancelHandled(ClaimingWorker, job_id) => ActiveTasksOf(ClaimingWorker, job_id) = {})
    /\ [][\A job_id \in DOMAIN redis_jobs :
             CancelHandled(ClaimingWorker, job_id) =>
                 RunEvents(queue', job_id) = RunEvents(queue, job_id)]_vars

(* ---------------------------------------------------------------------- *)
(* Specification of a worker that finds resume side-records of an earlier  *)
(* run in its download directory, with or without the partial files        *)
(* ---------------------------------------------------------------------- *)
InitResume ==
    /\ redis_jobs = EmptyMap
    /\ job_queue = EmptyMap
    /\ active_jobs = EmptyMap
    /\ queue = [t \in MessageType |-> <<>>]
    /\ pubsub = [s \in Services |-> [t \in MessageType |-> <<>>]]
    /\ subscribers = {JM, ClaimingWorker}
    /\ ret = NoCall
    /\ runs = {}
    /\ procs = [w \in Workers |-> <<>>]
    /\ active_downloads = [w \in Workers |-> EmptyMap]
    /\ resume_data = [w \in Workers |-> {}]
    /\ resume_files \in [Workers -> SUBSET LeftOverResumeFiles]
    /\ \A w \in Workers \ {ClaimingWorker} : resume_files[w] = {}
    /\ progress_tasks = [w \in Workers |-> <<>>]
    /\ resume_tasks = [w \in Workers |-> <<>>]
    /\ shutdown = [w \in Workers |-> FALSE]
    /\ dl = NotCalled
    /\ bus = NoBus
    /\ partial_files \in SUBSET LeftOverResumeFiles
    /\ storage = EmptyStorage
    /\ db = EmptyDb
    /\ api = EmptyApi

NextResume ==
    \/ NextJob
    \/ \E p \in 1..Len(procs[ClaimingWorker]) :
          \E success \in BOOLEAN, reports \in ProgressReports :
             ResumeDownloadRuns(ClaimingWorker, p, success, reports)

SpecResume == InitResume /\ [][NextResume]_vars

\* C27: resume data is validated against the file on disk: a task is resumed
\* (download_resume instead of download_started) only if the partial file its
\* resume data names exists with at least the recorded size; otherwise the
\* resume data is discarded and the task starts cold.
C27_ResumeDataValidated ==
    \A p \in 1..Len(procs[ClaimingWorker]) :
        procs[ClaimingWorker][p].pc = "resume" =>
            Current(ClaimingWorker, p).id \in partial_files

\* C28: resume data is cleared on successful completion: whenever a task has
\* reached COMPLETED and its download_completed has been published, no resume
\* data for it remains in the in-memory map or in the durable side-record,
\* under any interleaving with pause handling.
C28_ResumeDataCleared ==
    \A p \in 1..Len(procs[ClaimingWorker]) :
        \A k \in Succeeded(procs[ClaimingWorker][p]) :
            LET task == procs[ClaimingWorker][p].tasks[k]
            IN Published(DOWNLOAD_COMPLETED, task.id) > 0 =>
                   ~HasResumeData(ClaimingWorker, task.id)

\* the consumer loops and the coroutines of the services keep running
SpecJobFair == SpecJob /\ WF_vars(NextJob)

\* C29: the priority queue is reconciled with job state: a job whose record
\* is terminal (COMPLETED, FAILED or CANCELLED) is eventually absent from the
\* priority queue.
C29_TerminalLeavesQueue ==
    \A job_id \in JobIds :
        (job_id \in DOMAIN redis_jobs /\ redis_jobs[job_id].status \in Terminal) ~> (job_id \notin DOMAIN job_queue)

(* ---------------------------------------------------------------------- *)
(* JobManager._store_job and _load_job with their conversions: job objects *)
(* hold Python values, tagged with their type, and Redis holds JSON text   *)
(* ---------------------------------------------------------------------- *)
PyNone == [py |-> "NoneType", v |-> <<>>]
PyStr(s) == [py |-> "str", v |-> <<s>>]
PyInt(n) == [py |-> "int", v |-> n]
PyFloat(n) == [py |-> "float", v |-> n]
PyList(seq) == [py |-> "list", v |-> seq]
PyDict(f) == [py |-> "dict", v |-> f]
Datetime(second, microsecond) == [py |-> "datetime", v |-> <<second, microsecond>>]
Member(value) == [py |-> "JobStatus", v |-> value]

\* datetime.isoformat(timespec='seconds'): the text without the microseconds
isoformat_seconds(dt) == [py |-> "str", v |-> <<"T", dt.v[1]>>]
\* datetime.isoformat(): "YYYY-MM-DDTHH:MM:SS", followed by ".ffffff" unless
\* the microsecond is 0
isoformat(dt) ==
    [py |-> "str", v |-> IF dt.v[2] = 0 THEN <<"T", dt.v[1]>> ELSE <<"T", dt.v[1], ".", dt.v[2]>>]

\* datetime.fromisoformat
fromisoformat(text) ==
    Datetime(text.v[2], IF Len(text.v) > 2 THEN text.v[4] ELSE 0)

\* the truth value of what data.get(key) returns
Truthy(x) == x.py # "NoneType" /\ ~(x.py = "str" /\ x.v = <<"">>)

\* json.dumps: the JSON text of a value, as the tree of its tokens
RECURSIVE json_dumps(_)
json_dumps(x) ==
    CASE x.py = "NoneType" -> [json |-> "null", v |-> <<>>]
      [] x.py = "str" -> [json |-> "string", v |-> x.v]
      [] x.py = "int" -> [json |-> "number", v |-> <<x.v>>]
      [] x.py = "float" -> [json |-> "number", v |-> <<x.v, ".">>]
      [] x.py = "list" -> [json |-> "array", v |-> [i \in DOMAIN x.v |-> json_dumps(x.v[i])]]
      [] x.py = "dict" -> [json |-> "object", v |-> [k \in DOMAIN x.v |-> json_dumps(x.v[k])]]

\* json.loads
RECURSIVE json_loads(_)
json_loads(t) ==
    CASE t.json = "null" -> PyNone
      [] t.json = "string" -> [py |-> "str", v |-> t.v]
      [] t.json = "number" -> IF Len(t.v) > 1 THEN PyFloat(t.v[1]) ELSE PyInt(t.v[1])
      [] t.json = "array" -> PyList([i \in DOMAIN t.v |-> json_loads(t.v[i])])
      [] t.json = "object" -> PyDict([k \in DOMAIN t.v |-> json_loads(t.v[k])])

\* _store_job: the dictionary job_data built from the job object
job_data(job) ==
    PyDict([id |-> job.id,
          urls |-> job.urls,
          config |-> job.config,
          status |-> [py |-> "str", v |-> job.status.v],
          priority |-> job.priority,
          created_at |-> isoformat(job.created_at),
          started_at |-> IF job.started_at.py # "NoneType"
                         THEN isoformat(job.started_at) ELSE PyNone,
          completed_at |-> IF job.completed_at.py # "NoneType"
                           THEN isoformat(job.completed_at) ELSE PyNone,
          progress |-> job.progress,
          error |-> job.error,
          retry_count |-> job.retry_count,
          max_retries |-> job.max_retries,
          resume_data |-> job.resume_data])

\* _store_job: SETEX job:{id} with json.dumps(job_data)
setex_job(jobs, job) == Put(jobs, job.id.v[1], json_dumps(job_data(job)))

\* _load_job: GET job:{id}, json.loads and the DownloadJob built from it; None
\* if there is no such key or the conversion raises
_load_job(jobs, job_id) ==
    IF job_id \notin DOMAIN jobs THEN PyNone
    ELSE LET data == json_loads(jobs[job_id]).v
         IN IF data.status.v \notin {<<s>> : s \in JobStatus} THEN PyNone
            ELSE [id |-> data.id,
                  urls |-> data.urls,
                  config |-> data.config,
                  status |-> Member(data.status.v),
                  priority |-> data.priority,
                  created_at |-> fromisoformat(data.created_at),
                  started_at |-> IF Truthy(data.started_at)
                                 THEN fromisoformat(data.started_at) ELSE PyNone,
                  completed_at |-> IF Truthy(data.completed_at)
                                   THEN fromisoformat(data.completed_at) ELSE PyNone,
                  progress |-> data.progress,
                  error |-> data.error,
                  retry_count |-> data.retry_count,
                  max_retries |-> data.max_retries,
                  resume_data |-> data.resume_data]

\* the job objects stored: every status, timestamps with and without
\* microseconds, flat and nested config
StoredJobId == "job_0_1"
Datetimes == {Datetime(0, 0), Datetime(1, 250)}
StoredConfigs ==
    {PyDict(EmptyMap),
     PyDict([quality |-> PyStr("best")]),
     PyDict([quality |-> PyStr("best"),
           retry |-> PyDict([max_retries |-> PyInt(5), wait |-> PyFloat(2)]),
           formats |-> PyList(<<PyStr("mp4"), PyNone>>)])}
StoredJobs ==
    {[id |-> PyStr(StoredJobId), urls |-> PyList(<<PyStr("A"), PyStr("B")>>), config |-> config,
      status |-> Member(<<status>>), priority |-> PyInt(1), created_at |-> created_at,
      started_at |-> started_at, completed_at |-> completed_at, progress |-> progress,
      error |-> error, retry_count |-> PyInt(retry_count), max_retries |-> PyInt(DefaultMaxRetries),
      resume_data |-> resume] :
        config \in StoredConfigs, status \in JobStatus, created_at \in Datetimes,
        started_at \in {PyNone} \cup Datetimes, completed_at \in {PyNone, Datetime(1, 250)},
        progress \in {PyFloat(0), PyFloat(50)}, error \in {PyNone, PyStr("Completed 1/2 tasks")},
        retry_count \in {0, 1}, resume \in {PyNone, PyDict([downloaded_bytes |-> PyInt(10)])}}

\* a handler holds a job object in active_jobs and calls _store_job on it
StoresJob(job_id) ==
    /\ job_id \in DOMAIN active_jobs
    /\ redis_jobs' = setex_job(redis_jobs, active_jobs[job_id])
    /\ ret' = NoCall
    /\ UNCHANGED <<job_queue, active_jobs, queue, pubsub, subscribers, runs, workerVars, dl, bus,
                   partial_files, storage, db, api>>

\* get_job for a job that is not in active_jobs: _load_job; the handler keeps
\* the object in active_jobs
LoadsJob(job_id) ==
    /\ job_id \notin DOMAIN active_jobs
    /\ job_id \in DOMAIN redis_jobs
    /\ active_jobs' = Put(active_jobs, job_id, _load_job(redis_jobs, job_id))
    /\ ret' = NoCall
    /\ UNCHANGED <<redis_jobs, job_queue, queue, pubsub, subscribers, runs, workerVars, dl, bus,
                   partial_files, storage, db, api>>

InitStore ==
    /\ redis_jobs = EmptyMap
    /\ job_queue = EmptyMap
    /\ active_jobs \in {Put(EmptyMap, StoredJobId, job) : job \in StoredJobs}
    /\ queue = [t \in MessageType |-> <<>>]
    /\ pubsub = [s \in Services |-> [t \in MessageType |-> <<>>]]
    /\ subscribers = {JM}
    /\ ret = NoCall
    /\ runs = {}
    /\ WorkersInit
    /\ dl = NotCalled
    /\ bus = NoBus
    /\ partial_files = {}
    /\ storage = EmptyStorage
    /\ db = EmptyDb
    /\ api = EmptyApi

NextStore ==
    \/ StoresJob(StoredJobId)
    \/ RestartJobManager
    \/ LoadsJob(StoredJobId)

SpecStore == InitStore /\ [][NextStore]_vars

\* C30: job persistence round-trips: _load_job of what _store_job wrote is a
\* record equal to the stored one in every field (id, urls, config with its
\* nested values, status, priority, the three timestamps, progress, error,
\* retry_count, max_retries, resume_data).
C30_StoreLoadRoundTrip ==
    [][StoresJob(StoredJobId) =>
          _load_job(redis_jobs', StoredJobId) = active_jobs[StoredJobId]]_vars

\* a job with a nested config, microseconds, all three timestamps, an error
\* and resume data has been stored, and loaded again after a restart
C30_Witness ==
    /\ StoredJobId \in DOMAIN redis_jobs
    /\ StoredJobId \in DOMAIN active_jobs
    /\ _load_job(redis_jobs, StoredJobId) = active_jobs[StoredJobId]
    /\ LET job == active_jobs[StoredJobId]
       IN /\ "retry" \in DOMAIN job.config.v
          /\ job.created_at.v[2] # 0
          /\ job.started_at.py = "datetime"
          /\ job.completed_at.py = "datetime"
          /\ job.error.py = "str"
          /\ job.resume_data.py = "dict"
          /\ job.status.v = <<COMPLETED>>

(* ---------------------------------------------------------------------- *)
(* Specification of a JobManager object from its construction: the store   *)
(* connection self.redis is None until connect has run                     *)
(* ---------------------------------------------------------------------- *)
\* JobManager.connect has run: self.redis is set and the handlers are subscribed
StoreConnected == JM \in subscribers

\* JobManager.connect
JobManagerConnects ==
    /\ ~StoreConnected
    /\ subscribers' = subscribers \cup {JM}
    /\ ret' = NoCall
    /\ UNCHANGED <<redis_jobs, job_queue, active_jobs, queue, pubsub, runs, workerVars, dl, bus,
                   partial_files, storage, db, api>>

\* JobManager.create_job while self.redis is None: _store_job and _queue_job
\* return at once, MessageQueue.publish connects the bus itself and publishes
\* job_created, and the job id is returned
create_job_unconnected(urls, config, priority, now) ==
    /\ ~StoreConnected
    /\ Room(JOB_CREATED)
    /\ publish(create_job_message(JobId(now, urls), JOB_CREATED,
                  [urls |-> urls, config |-> config, priority |-> priority], now))
    /\ ret' = Returned(TRUE)
    /\ UNCHANGED <<redis_jobs, job_queue, active_jobs, subscribers, runs, workerVars, dl, bus,
                   partial_files, storage, db, api>>

InitUnconnected ==
    /\ redis_jobs = EmptyMap
    /\ job_queue = EmptyMap
    /\ active_jobs = EmptyMap
    /\ queue = [t \in MessageType |-> <<>>]
    /\ pubsub = [s \in Services |-> [t \in MessageType |-> <<>>]]
    /\ subscribers = {ClaimingWorker}
    /\ ret = NoCall
    /\ runs = {}
    /\ WorkersInit
    /\ dl = NotCalled
    /\ bus = NoBus
    /\ partial_files = {}
    /\ storage = EmptyStorage
    /\ db = EmptyDb
    /\ api = EmptyApi

NextUnconnected ==
    \/ JobManagerConnects
    \/ \E urls \in WorkerUrlLists, config \in Configs, priority \in Priorities, now \in Seconds :
          create_job_unconnected(urls, config, priority, now)
    \/ \E urls \in WorkerUrlLists, config \in Configs, priority \in Priorities, now \in Seconds :
          StoreConnected /\ create_job(urls, config, priority, now)
    \/ _handle_job_created(ClaimingWorker)
    \/ \E p \in 1..Len(procs[ClaimingWorker]) : ProcessJobStart(ClaimingWorker, p)
    \/ \E p \in 1..Len(procs[ClaimingWorker]) : ProcessJobLoop(ClaimingWorker, p)
    \/ \E p \in 1..Len(procs[ClaimingWorker]) :
          \E success \in BOOLEAN, reports \in ProgressReports :
             DownloadTaskRuns(ClaimingWorker, p, success, reports)
    \/ \E p \in 1..Len(procs[ClaimingWorker]) : TaskReturned(ClaimingWorker, p)
    \/ \E p \in 1..Len(procs[ClaimingWorker]) : TaskFinished(ClaimingWorker, p)
    \/ ProgressPublished(ClaimingWorker)
    \/ \E now \in Seconds : _handle_job_started(now)
    \/ _handle_job_progress
    \/ \E now \in Seconds : _handle_job_completed(now)
    \/ \E now \in Seconds : _handle_job_failed(now)

SpecUnconnected == InitUnconnected /\ [][NextUnconnected]_vars

\* C31: operations fail closed when the durable store is unavailable: a
\* job_created message is published only for a job whose record was written,
\* and create_job reports success only then.
C31_FailClosed ==
    \A i \in 1..Len(queue[JOB_CREATED]) : queue[JOB_CREATED][i].id \in DOMAIN redis_jobs

(* ---------------------------------------------------------------------- *)
(* Specification of one job run whose backlog lists are drained with       *)
(* get_pending_messages while the services publish                         *)
(* ---------------------------------------------------------------------- *)
\* the types whose backlog is drained: the events of the worker
DrainedTypes == {DOWNLOAD_STARTED, DOWNLOAD_COMPLETED}

\* one job is created and run
NextDrain ==
    \/ \E urls \in WorkerUrlLists, config \in Configs, priority \in Priorities, now \in Seconds :
          redis_jobs = EmptyMap /\ create_job(urls, config, priority, now)
    \/ _handle_job_created(ClaimingWorker)
    \/ \E p \in 1..Len(procs[ClaimingWorker]) : ProcessJobStart(ClaimingWorker, p)
    \/ \E p \in 1..Len(procs[ClaimingWorker]) : ProcessJobLoop(ClaimingWorker, p)
    \/ \E p \in 1..Len(procs[ClaimingWorker]) : \E reports \in ProgressReports :
          DownloadTaskRuns(ClaimingWorker, p, TRUE, reports)
    \/ \E p \in 1..Len(procs[ClaimingWorker]) : TaskReturned(ClaimingWorker, p)
    \/ \E p \in 1..Len(procs[ClaimingWorker]) : TaskFinished(ClaimingWorker, p)
    \/ ProgressPublished(ClaimingWorker)
    \/ \E now \in Seconds : _handle_job_started(now)
    \/ _handle_job_progress
    \/ \E now \in Seconds : _handle_job_completed(now)
    \/ \E type \in DrainedTypes, limit \in Limits : get_pending_messages(type, limit)

SpecDrain == InitJob /\ [][NextDrain]_vars

\* the messages of a list in the order they were published: publish pushes at
\* the head, so the oldest is last
RECURSIVE OldestFirst(_)
OldestFirst(list) ==
    IF list = <<>> THEN <<>> ELSE <<list[Len(list)]>> \o OldestFirst(SubSeq(list, 1, Len(list) - 1))

\* C32: get_pending_messages(type, limit) removes and returns at most limit
\* messages of the backlog of the type, oldest first, leaves every other
\* message of the backlogs in place and returns every message it removed.
C32_PendingDrainsOldestFirst ==
    [][\A type \in DrainedTypes, limit \in Limits :
          get_pending_messages(type, limit) =>
              LET returned == rpop_loop(queue[type], limit).messages
                  before == OldestFirst(queue[type])
                  after == OldestFirst(queue'[type])
              IN /\ Len(returned) <= limit
                 /\ returned \o after = before
                 /\ \A other \in MessageType \ {type} : queue'[other] = queue[other]]_vars

\* download_started of the first task has been drained with limit 1 while
\* that of the second task, published later, is still in the backlog
C32_Witness ==
    /\ Len(queue[DOWNLOAD_STARTED]) = 1
    /\ \E job_id \in DOMAIN redis_jobs : queue[DOWNLOAD_STARTED][1].id = TaskId(job_id, 1)

(* ---------------------------------------------------------------------- *)
(* Specification of MessageQueue.start_consuming: the consumer loops of    *)
(* the subscribed types of one service (the Job Manager's connection) and  *)
(* the call that gathers them.  Here bus holds the subscribed types, the   *)
(* _running flag, the position of the start_consuming call and of each of  *)
(* its consumer tasks.                                                     *)
(* ---------------------------------------------------------------------- *)
ConsumedTypes == {JOB_STARTED, JOB_COMPLETED, JOB_FAILED}

NotConsuming == [subscribers |-> {}, _running |-> FALSE, pc |-> "idle", loops |-> EmptyMap]

consumeOther == <<redis_jobs, job_queue, active_jobs, subscribers, ret, runs, workerVars, dl,
                  partial_files, storage, db, api>>

\* MessageQueue.subscribe(message_type, callback): the type gets a list
SubscribesTo(type) ==
    /\ type \notin bus.subscribers
    /\ bus' = [bus EXCEPT !.subscribers = @ \cup {type}]
    /\ UNCHANGED <<queue, pubsub>>
    /\ UNCHANGED consumeOther

\* start_consuming: _running = True and one _consume_messages task for each
\* type subscribed so far; each task subscribes to the channel of its type
StartConsuming ==
    /\ bus.pc = "idle"
    /\ bus' = [bus EXCEPT !._running = TRUE, !.pc = "gather",
                          !.loops = [t \in bus.subscribers |-> "listening"]]
    /\ UNCHANGED <<queue, pubsub>>
    /\ UNCHANGED consumeOther

\* stop_consuming: _running = False
StopConsuming ==
    /\ bus._running
    /\ bus' = [bus EXCEPT !._running = FALSE]
    /\ UNCHANGED <<queue, pubsub>>
    /\ UNCHANGED consumeOther

\* a service publishes a message of the type: the channel delivers it to the
\* consumer task that is subscribed, and it is pushed on the backlog list
ChannelPublishes(type) ==
    /\ BacklogSize < MaxBacklog
    /\ InboxSize(JM) < MaxInbox
    /\ LET m == create_job_message("job", type, NoPayload, 0)
       IN /\ queue' = LPush(queue, m)
          /\ pubsub' = IF type \in DOMAIN bus.loops /\ bus.loops[type] = "listening"
                       THEN [pubsub EXCEPT ![JM][type] = Append(@, m)]
                       ELSE pubsub
    /\ UNCHANGED bus
    /\ UNCHANGED consumeOther

\* the loop test of _consume_messages without the flag: `while True`
LoopGoesOn_always(running) == TRUE
\* the loop test of _consume_messages: `while self._running`
LoopGoesOn(running) == running

\* _consume_messages: get_message returns a message and the callbacks run
ConsumerReceives(type) ==
    /\ type \in DOMAIN bus.loops
    /\ bus.loops[type] = "listening"
    /\ LoopGoesOn(bus._running)
    /\ Received(JM, type)
    /\ Consume(JM, type)
    /\ UNCHANGED <<queue, bus>>
    /\ UNCHANGED consumeOther

\* _consume_messages: the loop test fails; the finally unsubscribes the
\* channel, what it had buffered is gone, and the task ends
ConsumerStops(type) ==
    /\ type \in DOMAIN bus.loops
    /\ bus.loops[type] = "listening"
    /\ ~LoopGoesOn(bus._running)
    /\ bus' = [bus EXCEPT !.loops[type] = "ended"]
    /\ pubsub' = [pubsub EXCEPT ![JM][type] = <<>>]
    /\ UNCHANGED queue
    /\ UNCHANGED consumeOther

\* start_consuming: asyncio.gather returns when every consumer task has ended
GatherReturns ==
    /\ bus.pc = "gather"
    /\ \A type \in DOMAIN bus.loops : bus.loops[type] = "ended"
    /\ bus' = [bus EXCEPT !.pc = "returned"]
    /\ UNCHANGED <<queue, pubsub>>
    /\ UNCHANGED consumeOther

InitConsume ==
    /\ redis_jobs = EmptyMap
    /\ job_queue = EmptyMap
    /\ active_jobs = EmptyMap
    /\ queue = [t \in MessageType |-> <<>>]
    /\ pubsub = [s \in Services |-> [t \in MessageType |-> <<>>]]
    /\ subscribers = {}
    /\ ret = NoCall
    /\ runs = {}
    /\ WorkersInit
    /\ dl = NotCalled
    /\ bus \in {[NotConsuming EXCEPT !.subscribers = types] : types \in SUBSET ConsumedTypes}
    /\ partial_files = {}
    /\ storage = EmptyStorage
    /\ db = EmptyDb
    /\ api = EmptyApi

ConsumerStep ==
    \/ \E type \in ConsumedTypes : ConsumerReceives(type)
    \/ \E type \in ConsumedTypes : ConsumerStops(type)
    \/ GatherReturns

NextConsume ==
    \/ \E type \in ConsumedTypes : SubscribesTo(type)
    \/ StartConsuming
    \/ StopConsuming
    \/ \E type \in ConsumedTypes : ChannelPublishes(type)
    \/ ConsumerStep

SpecConsume == InitConsume /\ [][NextConsume]_vars
\* the event loop keeps running the consumer tasks
SpecConsumeFair == SpecConsume /\ WF_vars(ConsumerStep)

BusyUrlLists == {<<"A", "B">>, <<"B">>}

NextBusy ==
    \/ \E urls \in BusyUrlLists, config \in Configs, priority \in Priorities, now \in Seconds :
          JobId(now, urls) \notin DOMAIN redis_jobs /\ create_job(urls, config, priority, now)
    \/ \E limit \in Limits : get_pending_messages(JOB_CREATED, limit)
    \/ JobCreatedHandled(ClaimingWorker, MaxProcs + 1)
    \/ \E p \in 1..Len(procs[ClaimingWorker]) : ProcessJobStart(ClaimingWorker, p)
    \/ \E p \in 1..Len(procs[ClaimingWorker]) : ProcessJobLoop(ClaimingWorker, p)
    \/ \E p \in 1..Len(procs[ClaimingWorker]) : \E success \in BOOLEAN :
          DownloadTaskRuns(ClaimingWorker, p, success, 0)
    \/ \E p \in 1..Len(procs[ClaimingWorker]) : TaskReturned(ClaimingWorker, p)
    \/ \E p \in 1..Len(procs[ClaimingWorker]) : TaskFinished(ClaimingWorker, p)

SpecBusy == InitCtl /\ [][NextBusy]_vars

\* the tasks in the active set of the worker with status RUNNING
RunningTasks(w) ==
    {t \in DOMAIN active_downloads[w] : TaskAt(w, active_downloads[w][t]).status = RUNNING}

\* C34: within one worker process tasks are processed sequentially: at every
\* moment at most one task is in the worker's active set with status RUNNING,
\* also when job_created messages arrive while a job is being processed.
C34_SequentialTasks == Cardinality(RunningTasks(ClaimingWorker)) <= 1


(* ---------------------------------------------------------------------- *)
(* services/storage-service/app.py: StorageManager                         *)
(* ---------------------------------------------------------------------- *)
MaxStorageEvents == 3          \* events the storage service publishes
MaxStorageDays == 2            \* datetime.now() of the storage service, in days since the oldest file

DaySeconds == 24 * 60 * 60
StorageNow == MaxStorageDays * DaySeconds
Mtimes == {d * DaySeconds : d \in 0..MaxStorageDays}   \* st_mtime of the files handed to store_file
CleanupDays == 0..MaxStorageDays                        \* the days argument of cleanup_old_files
FileHashes == {"ab12"}                                  \* SHA256 digests of the stored contents
FileNames == {[stem |-> "clip", suffix |-> ".mp4"], [stem |-> "clip", suffix |-> ".webm"]}
MetaSuffix == ".meta.json"
STORAGE_UPLOAD == "storage_upload"

\* storage_dir / f"{file_hash}_{file_path.name}", storage_dir = downloads/<file_hash[:2]>
storage_path(file_hash, name) == [hash |-> file_hash, stem |-> name.stem, suffix |-> name.suffix]

\* pathlib.PurePath.with_suffix: the last suffix of the name is replaced
with_suffix(path, suffix) == [path EXCEPT !.suffix = suffix]

\* shared.models.create_storage_message: always of type STORAGE_UPLOAD, the operation in the payload
create_storage_message(operation, payload) ==
    [message_type |-> STORAGE_UPLOAD, operation |-> operation, payload |-> payload]

\* StorageManager.store_file(file_path, job_id, metadata): the file is moved (it keeps its
\* st_mtime), the sidecar is written when metadata is given, an "upload" event is published
store_file(name, file_hash, mtime, metadata) ==
    LET path == storage_path(file_hash, name)
        metadata_path == with_suffix(path, MetaSuffix)
    IN /\ Len(storage.events) < MaxStorageEvents
       /\ storage' = [storage EXCEPT
              !.files = [p \in DOMAIN @ \cup {path} |-> IF p = path THEN mtime ELSE @[p]],
              !.sidecars = IF metadata
                           THEN [p \in DOMAIN @ \cup {metadata_path} |->
                                     IF p = metadata_path THEN path ELSE @[p]]
                           ELSE @,
              !.events = Append(@, create_storage_message("upload",
                                       [file_path |-> path, metadata |-> metadata]))]
       /\ UNCHANGED <<redis_jobs, job_queue, active_jobs, queue, pubsub, subscribers, ret, runs,
                      workerVars, dl, bus, partial_files, db, api>>

cutoff_time(now, days) == now - (days * 24 * 60 * 60)

\* the files cleanup_old_files unlinks: every file that is not a sidecar and is older than the cutoff
OldFiles(files, days) == {p \in DOMAIN files : files[p] < cutoff_time(StorageNow, days)}

\* StorageManager.cleanup_old_files(days)
cleanup_old_files(days) ==
    LET old == OldFiles(storage.files, days)
        metadata_paths == {with_suffix(p, MetaSuffix) : p \in old}
        deleted_count == Cardinality(old)
    IN /\ Len(storage.events) < MaxStorageEvents
       /\ storage' = [storage EXCEPT
              !.files = [p \in DOMAIN @ \ old |-> @[p]],
              !.sidecars = [p \in DOMAIN @ \ metadata_paths |-> @[p]],
              !.events = Append(@, create_storage_message("cleanup",
                                       [deleted_count |-> deleted_count, days |-> days])),
              !.returned = deleted_count]
       /\ UNCHANGED <<redis_jobs, job_queue, active_jobs, queue, pubsub, subscribers, ret, runs,
                      workerVars, dl, bus, partial_files, db, api>>

NextStorage ==
    \/ \E name \in FileNames, file_hash \in FileHashes, mtime \in Mtimes, metadata \in BOOLEAN :
           store_file(name, file_hash, mtime, metadata)
    \/ \E days \in CleanupDays : cleanup_old_files(days)

SpecStorage == Init /\ [][NextStorage]_vars

\* the sidecar at with_suffix(path, ".meta.json") was written by the store_file call of this artifact
OwnsSidecar(s, path) ==
    /\ with_suffix(path, MetaSuffix) \in DOMAIN s.sidecars
    /\ s.sidecars[with_suffix(path, MetaSuffix)] = path

CleanupDone(days) ==
    LET cutoff == cutoff_time(StorageNow, days)
        old == {p \in DOMAIN storage.files : storage.files[p] < cutoff}
    IN /\ \A p \in old : /\ p \notin DOMAIN storage'.files
                         /\ ~OwnsSidecar(storage', p)
       /\ \A p \in DOMAIN storage.files \ old :
              /\ p \in DOMAIN storage'.files
              /\ OwnsSidecar(storage, p) => OwnsSidecar(storage', p)
       /\ storage'.returned = Cardinality(old)
       /\ Len(storage'.events) = Len(storage.events) + 1
       /\ storage'.events[Len(storage'.events)].operation = "cleanup"
       /\ storage'.events[Len(storage'.events)].payload.deleted_count = Cardinality(old)

\* C35: cleanup_old_files(days) deletes every artifact older than the cutoff with its sidecar,
\* keeps every other artifact and the sidecar that belongs to it, returns the number of
\* artifacts deleted and publishes exactly one event carrying that number.
C35_CleanupKeepsOwnedSidecars ==
    [][\A days \in CleanupDays : cleanup_old_files(days) => CleanupDone(days)]_vars


(* ---------------------------------------------------------------------- *)
(* youtube_downloader/models/database.py: DatabaseManager                  *)
(* ---------------------------------------------------------------------- *)
MonthDays == 30                \* days of the months of the calendar
MaxResults == 2                \* rows inserted into download_results

\* datetimes of the database are calendar dates with an hour: [month, day, hour]
DbNows == {[month |-> 2, day |-> d, hour |-> 12] : d \in {1, 2, MonthDays}}
CreatedAts == {[month |-> 1, day |-> 20, hour |-> 12], [month |-> 2, day |-> 1, hour |-> 6],
               [month |-> 2, day |-> MonthDays - 1, hour |-> 18]}
CleanupJobDays == {0, 1, MonthDays}      \* the days argument of cleanup_old_jobs (default 30)
DbJobIds == {"old-job", "recent-job"}
DbStatuses == {"pending", "completed"}
PyPath(s) == [py |-> "PosixPath", v |-> <<s>>]

\* data_models.DownloadConfig, a dataclass whose output_path is a Path, and a plain dict
DownloadConfig(output_path, max_workers) ==
    [py |-> "DownloadConfig", v |-> [output_path |-> output_path, max_workers |-> max_workers]]
DbConfigs == {DownloadConfig(PyPath("downloads"), PyInt(2)),
              PyDict([output_path |-> PyStr("downloads"), max_workers |-> PyInt(2)])}

\* data_models.DownloadJob
DbJobs ==
    {[py |-> "DownloadJob", id |-> id, urls |-> PyList(<<PyStr("A"), PyStr("B")>>),
      config |-> config, status |-> status, created_at |-> Datetime(created_at, 0)] :
        id \in DbJobIds, config \in DbConfigs, status \in DbStatuses, created_at \in CreatedAts}

\* hours since the start of the calendar
Ordinal(t) == ((t.month - 1) * MonthDays + (t.day - 1)) * 24 + t.hour

\* json.dumps raises TypeError for a value that is no dict, list, str, number or None
RECURSIVE Serializable(_)
Serializable(x) ==
    CASE x.py \in {"NoneType", "str", "int", "float"} -> TRUE
      [] x.py = "list" -> \A i \in DOMAIN x.v : Serializable(x.v[i])
      [] x.py = "dict" -> \A k \in DOMAIN x.v : Serializable(x.v[k])
      [] OTHER -> FALSE

\* job.config.__dict__ if hasattr(job.config, '__dict__') else job.config
config_dict(config) == IF config.py = "dict" THEN config ELSE PyDict(config.v)

\* sqlite3's adapter of datetime parameters: isoformat(" ")
adapt_datetime(dt) == [py |-> "str", v |-> <<" ", dt.v[1]>>]

\* the comparison of two TIMESTAMP texts "YYYY-MM-DD HH:MM:SS": fixed width, so by date
TextBefore(a, b) == Ordinal(a.v[2]) < Ordinal(b.v[2])

dbOther == <<redis_jobs, job_queue, active_jobs, queue, pubsub, subscribers, ret, runs,
             workerVars, dl, bus, partial_files, storage, api>>

\* INSERT OR REPLACE INTO download_jobs: the row with this primary key is replaced
insert_or_replace(rows, row) == {r \in rows : r.id # row.id} \cup {row}
\* INSERT INTO of a table without a primary key on id
insert(rows, row) == rows \cup {row}

\* the table after DatabaseManager.save_download_job(job); the parameters are built
\* before the statement runs, so nothing is written when json.dumps raises
saved_download_jobs(rows, job) ==
    IF ~Serializable(config_dict(job.config)) THEN rows
    ELSE insert_or_replace(rows, [id |-> job.id,
                                  urls |-> json_dumps(job.urls),
                                  config |-> json_dumps(config_dict(job.config)),
                                  status |-> job.status,
                                  created_at |-> adapt_datetime(job.created_at)])

\* DatabaseManager.save_download_job(job)
save_download_job(job) ==
    /\ Ordinal(job.created_at.v[1]) <= Ordinal(db.now)
    /\ db' = [db EXCEPT !.download_jobs = saved_download_jobs(@, job),
                        !.outcome = IF Serializable(config_dict(job.config))
                                    THEN "returned" ELSE "TypeError"]
    /\ UNCHANGED dbOther

\* DatabaseManager.get_download_job(job_id): None or the DownloadJob built from the row
get_download_job(rows, job_id) ==
    IF \A r \in rows : r.id # job_id THEN PyNone
    ELSE LET row == CHOOSE r \in rows : r.id = job_id
         IN [py |-> "DownloadJob", id |-> row.id, urls |-> json_loads(row.urls),
             config |-> [py |-> "DownloadConfig", v |-> json_loads(row.config).v],
             status |-> row.status, created_at |-> fromisoformat(row.created_at)]

\* DatabaseManager.save_download_result(job_id, result)
save_download_result(job_id) ==
    /\ db.rowid < MaxResults
    /\ db' = [db EXCEPT !.download_results = @ \cup {[id |-> db.rowid + 1, job_id |-> job_id]},
                        !.rowid = @ + 1,
                        !.outcome = "returned"]
    /\ UNCHANGED dbOther

\* DatabaseManager.cleanup_old_jobs(days): datetime.replace(day=...) raises ValueError
\* for a day that is not a day of the month
cleanup_old_jobs(days) ==
    LET today == [db.now EXCEPT !.hour = 0]
    IN /\ IF today.day - days \notin 1..MonthDays
          THEN db' = [db EXCEPT !.outcome = "ValueError"]
          ELSE LET cutoff_date == adapt_datetime(Datetime([today EXCEPT !.day = @ - days], 0))
                   old == {r \in db.download_jobs : TextBefore(r.created_at, cutoff_date)}
               IN db' = [db EXCEPT
                      !.download_results = {res \in @ : \A r \in old : res.job_id # r.id},
                      !.download_jobs = @ \ old,
                      !.outcome = "returned",
                      !.returned = Cardinality(old)]
       /\ UNCHANGED dbOther

InitDb ==
    /\ redis_jobs = EmptyMap
    /\ job_queue = EmptyMap
    /\ active_jobs = EmptyMap
    /\ queue = [t \in MessageType |-> <<>>]
    /\ pubsub = [s \in Services |-> [t \in MessageType |-> <<>>]]
    /\ subscribers = {JM}
    /\ ret = NoCall
    /\ runs = {}
    /\ WorkersInit
    /\ dl = NotCalled
    /\ bus = NoBus
    /\ partial_files = {}
    /\ storage = EmptyStorage
    /\ db \in {[EmptyDb EXCEPT !.now = now] : now \in DbNows}
    /\ api = EmptyApi

NextDb ==
    \/ \E job \in DbJobs : save_download_job(job)
    \/ \E job_id \in DbJobIds : save_download_result(job_id)
    \/ \E days \in CleanupJobDays : cleanup_old_jobs(days)

SpecDb == InitDb /\ [][NextDb]_vars

\* the rows whose created_at is more than `days` days before now
OlderThan(rows, now, days) ==
    {r \in rows : Ordinal(r.created_at.v[2]) < Ordinal(now) - days * 24}

CleanupJobsDone(days) ==
    LET old == OlderThan(db.download_jobs, db.now, days)
    IN /\ db'.outcome = "returned"
       /\ db'.download_jobs = db.download_jobs \ old
       /\ db'.download_results = {res \in db.download_results : \A r \in old : res.job_id # r.id}
       /\ db'.returned = Cardinality(old)

\* C36: cleanup_old_jobs(days) deletes exactly the jobs created more than `days` days before
\* now, with their results, keeps the others and returns the number of jobs deleted, on every
\* date and for every days >= 0.
C36_CleanupOldJobsExact ==
    [][\A days \in CleanupJobDays : cleanup_old_jobs(days) => CleanupJobsDone(days)]_vars

RoundTrips(job) ==
    LET got == get_download_job(db'.download_jobs, job.id)
    IN /\ got.py = "DownloadJob"
       /\ got.id = job.id
       /\ got.urls = job.urls
       /\ got.status = job.status
       /\ Cardinality({r \in db'.download_jobs : r.id = job.id}) = 1
       /\ {r \in db'.download_jobs : r.id # job.id} = {r \in db.download_jobs : r.id # job.id}

\* C37: after save_download_job(job), get_download_job(job.id) returns a job with the same
\* id, URL list and status, and the table holds one row for the id: a row saved earlier under
\* the id is replaced.
C37_SaveGetRoundTrip ==
    [][\A job \in DbJobs : save_download_job(job) => RoundTrips(job)]_vars


(* ---------------------------------------------------------------------- *)
(* The retry counter of a job record (checked under Spec)                  *)
(* ---------------------------------------------------------------------- *)
RetryCountInRange(job) == 0 <= job.retry_count /\ job.retry_count <= job.max_retries

\* C38: every job record, stored or held in active_jobs, has
\* 0 <= retry_count <= max_retries, whatever job_failed messages were delivered.
C38_RetryCountWithinMaxRetries ==
    /\ \A job_id \in DOMAIN redis_jobs : RetryCountInRange(redis_jobs[job_id])
    /\ \A job_id \in DOMAIN active_jobs : RetryCountInRange(active_jobs[job_id])


\* C39: every job held in active_jobs has status RUNNING or PAUSED: no cancelled,
\* completed or failed job is served from active_jobs.
C39_ActiveJobsAreLive ==
    \A job_id \in DOMAIN active_jobs : active_jobs[job_id].status \in {RUNNING, PAUSED}


(* ---------------------------------------------------------------------- *)
(* youtube_downloader/api/app.py: the standalone REST API                  *)
(* ---------------------------------------------------------------------- *)
ApiJobIds == {"uuid-1", "uuid-2"}        \* values of uuid.uuid4()

\* the DownloadJob create_download_job builds: its config is
\* DownloadConfig(output_path=Path(...), audio_only, max_workers)
ApiJob(job_id, status) ==
    [py |-> "DownloadJob", id |-> job_id, urls |-> PyList(<<PyStr("A")>>),
     config |-> DownloadConfig(PyPath("downloads"), PyInt(3)), status |-> status,
     created_at |-> Datetime(db.now, 0)]

\* db.save_download_job(job) called by a handler of the API
ApiSaves(job_id, status) ==
    [db EXCEPT !.download_jobs = saved_download_jobs(@, ApiJob(job_id, status)),
               !.outcome = IF Serializable(config_dict(ApiJob(job_id, status).config))
                           THEN "returned" ELSE "TypeError"]
SaveRaises(job_id) == ~Serializable(config_dict(ApiJob(job_id, "pending").config))

apiOther == <<redis_jobs, job_queue, active_jobs, queue, pubsub, subscribers, ret, runs,
              workerVars, dl, bus, partial_files, storage>>

\* POST /downloads: the job is saved, entered in active_jobs, and process_download_job is
\* added as a background task; an exception of the save ends the request before that
create_download_job(job_id) ==
    /\ job_id \notin DOMAIN api.tasks
    /\ db' = ApiSaves(job_id, "pending")
    /\ api' = IF SaveRaises(job_id) THEN [api EXCEPT !.response = "500"]
              ELSE [api EXCEPT !.active_jobs = @ \cup {job_id},
                               !.jobs = Put(@, job_id, "pending"),
                               !.tasks = Put(@, job_id, "scheduled"),
                               !.response = "accepted"]
    /\ UNCHANGED apiOther

\* process_download_job up to the await of run_in_executor
ProcessJobBegins(job_id) ==
    /\ job_id \in DOMAIN api.tasks
    /\ api.tasks[job_id] = "scheduled"
    /\ IF job_id \notin api.active_jobs
       THEN /\ api' = [api EXCEPT !.tasks[job_id] = "done"]
            /\ UNCHANGED db
       ELSE IF SaveRaises(job_id)
       THEN \* except branch: the job is marked failed and saving it raises again
            /\ api' = [api EXCEPT !.jobs[job_id] = "failed", !.active_jobs = @ \ {job_id},
                                  !.tasks[job_id] = "done"]
            /\ db' = ApiSaves(job_id, "failed")
       ELSE /\ api' = [api EXCEPT !.jobs[job_id] = "running", !.tasks[job_id] = "executor"]
            /\ db' = ApiSaves(job_id, "running")
    /\ UNCHANGED apiOther

\* process_download_job after the executor returned the results or raised: it still holds
\* the job object it took from active_jobs before the await
ProcessJobEnds(job_id, raised) ==
    /\ job_id \in DOMAIN api.tasks
    /\ api.tasks[job_id] = "executor"
    /\ IF ~raised
       THEN /\ api' = [api EXCEPT !.jobs[job_id] = "completed", !.active_jobs = @ \ {job_id},
                                  !.tasks[job_id] = "done"]
            /\ db' = [ApiSaves(job_id, "completed") EXCEPT
                   !.download_results = @ \cup {[id |-> db.rowid + 1, job_id |-> job_id]},
                   !.rowid = @ + 1]
       ELSE IF job_id \in api.active_jobs
       THEN /\ api' = [api EXCEPT !.jobs[job_id] = "failed", !.active_jobs = @ \ {job_id},
                                  !.tasks[job_id] = "done"]
            /\ db' = ApiSaves(job_id, "failed")
       ELSE /\ api' = [api EXCEPT !.tasks[job_id] = "done"]
            /\ UNCHANGED db
    /\ UNCHANGED apiOther

\* DELETE /downloads/{job_id}
cancel_download_job(job_id) ==
    /\ IF job_id \in api.active_jobs
       THEN /\ db' = ApiSaves(job_id, "cancelled")
            /\ api' = IF SaveRaises(job_id)
                      THEN [api EXCEPT !.jobs[job_id] = "cancelled", !.response = "500"]
                      ELSE [api EXCEPT !.jobs[job_id] = "cancelled",
                                       !.active_jobs = @ \ {job_id},
                                       !.response = "cancelled"]
       ELSE /\ api' = [api EXCEPT !.response = "404"]
            /\ UNCHANGED db
    /\ UNCHANGED apiOther

NextApi ==
    \E job_id \in ApiJobIds :
        \/ create_download_job(job_id)
        \/ ProcessJobBegins(job_id)
        \/ \E raised \in BOOLEAN : ProcessJobEnds(job_id, raised)
        \/ cancel_download_job(job_id)

SpecApi == InitDb /\ [][NextApi]_vars

\* no request of the API gets a job into active_jobs or a row into download_jobs
NoJobAccepted == api.active_jobs = {} /\ api.tasks = EmptyApi.tasks /\ db.download_jobs = {}

====
